---- MODULE Spec2Model ----
(***************************************************************************)
(* Model of src/parser/query/minify.rs: the token-stream minifier          *)
(* minify_query and the tree minifier minify_document (struct Minifier).   *)
(*                                                                         *)
(* Text is a sequence of Unicode code points (a Rust char is a code point, *)
(* `c as u32`), so that is_control, the {:04x} formatting and the decoding *)
(* of an escape are computed on numbers.  Option<T> is a sequence of       *)
(* length 0 (None) or 1 (Some).                                            *)
(***************************************************************************)
EXTENDS Integers, Sequences, FiniteSets, TLC

VARIABLES
    source,                  \* the caller's source text (minify_query's &str)
    off,                     \* TokenStream: offset of the next token (1-based)
    bits,                    \* minify_query: Vec<&str>
    prev_was_punctuator,     \* minify_query: the flag of line 14
    qpc,                     \* minify_query: "idle" (not called), "loop", "done"
    qres,                    \* minify_query: the Result returned (<<>> before)
    round,                   \* how often the caller has fed the output back in
    first,                   \* the Ok text of the caller's first call (<<>> before)
    doc,                     \* minify_document: the &Document argument
    stack,                   \* Minifier: the pending calls, innermost first
    buf,                     \* Minifier.buf
    last_was_non_punctuator, \* Minifier.last_was_non_punctuator
    dres,                    \* minify_document: the String returned (<<>> before)
    emitted                  \* history: the fragments written to buf, in order

qvars == <<source, off, bits, prev_was_punctuator, qpc, qres, round, first>>
dvars == <<doc, stack, buf, last_was_non_punctuator, dres, emitted>>
vars == <<source, off, bits, prev_was_punctuator, qpc, qres, round, first,
          doc, stack, buf, last_was_non_punctuator, dres, emitted>>

(***************************************************************************)
(* Bounds of the model.                                                    *)
(***************************************************************************)
\* pieces concatenated into an arbitrary source text
MaxPieces == 3
\* length of a decoded string value over CoreChars
MaxStrLen == 3
\* nesting of values, types and selections
MaxDepth == 2
\* definitions of a document
MaxDefs == 2

(***************************************************************************)
(* Text helpers.                                                           *)
(***************************************************************************)
Min(a, b) == IF a < b THEN a ELSE b

\* Vec<&str>::join(""), String::push_str over a list
RECURSIVE Concat(_)
Concat(ss) ==
    IF ss = <<>> THEN <<>>
    ELSE IF Len(ss) = 1 THEN ss[1]
    ELSE LET h == Len(ss) \div 2
         IN  Concat(SubSeq(ss, 1, h)) \o Concat(SubSeq(ss, h + 1, Len(ss)))

\* s[i..] starts with p  (i is 1-based)
StartsWithAt(s, i, p) ==
    /\ i + Len(p) - 1 <= Len(s)
    /\ \A k \in 1..Len(p) : s[i + k - 1] = p[k]

\* all sequences over S of length at most n
RECURSIVE SeqsUpTo(_, _)
SeqsUpTo(S, n) ==
    IF n = 0 THEN {<<>>}
    ELSE LET shorter == SeqsUpTo(S, n - 1)
         IN  shorter \cup {Append(w, c) : w \in shorter, c \in S}

Digits == 48..57                                  \* '0'..='9'
Letters == (65..90) \cup (97..122) \cup {95}      \* 'A'..='Z', 'a'..='z', '_'

(***************************************************************************)
(* crate::parser::tokenizer (TokenStream, Kind, Token).  A token is        *)
(* [kind, value]; value is the exact slice of the source.                  *)
(***************************************************************************)
\* the characters skipped between tokens: BOM, \t, \n, \r, space, comma
IgnoredChars == {65279, 9, 10, 13, 32, 44}

\* one-character punctuators: ! $ & ( ) : = @ [ ] { | }
PunctChars == {33, 36, 38, 40, 41, 58, 61, 64, 91, 93, 123, 124, 125}

\* what ends the scan of a number: ignored characters, '#', punctuators
NumberEnd == {32, 10, 13, 9, 44, 35} \cup PunctChars

\* skip_whitespace: the offset of the first character at or after i that is
\* neither ignored nor inside a '#' comment (which runs to the end of line)
RECURSIVE SkipComment(_, _)
SkipComment(s, i) ==
    IF i > Len(s) THEN i
    ELSE IF s[i] \in {10, 13} THEN i + 1
    ELSE SkipComment(s, i + 1)

RECURSIVE skip_whitespace(_, _)
skip_whitespace(s, i) ==
    IF i > Len(s) THEN i
    ELSE IF s[i] \in IgnoredChars THEN skip_whitespace(s, i + 1)
    ELSE IF s[i] = 35 THEN skip_whitespace(s, SkipComment(s, i + 1))
    ELSE i

\* the offset after the last character of the name starting at i
RECURSIVE ScanName(_, _)
ScanName(s, i) ==
    IF i <= Len(s) /\ s[i] \in Letters \cup Digits THEN ScanName(s, i + 1) ELSE i

RECURSIVE ScanNumber(_, _)
ScanNumber(s, i) ==
    IF i <= Len(s) /\ s[i] \notin NumberEnd THEN ScanNumber(s, i + 1) ELSE i

AllDigits(v) == \A k \in 1..Len(v) : v[k] \in Digits

\* IntValue: -?(0|[1-9][0-9]*)
check_int(v) ==
    LET u == IF v # <<>> /\ v[1] = 45 THEN Tail(v) ELSE v
    IN  /\ u # <<>>
        /\ AllDigits(u)
        /\ (u[1] = 48 => Len(u) = 1)

check_dec(v) == v # <<>> /\ AllDigits(v)

check_exp(v) ==
    /\ v # <<>>
    /\ IF v[1] \in {43, 45} THEN Len(v) > 1 /\ AllDigits(Tail(v)) ELSE AllDigits(v)

\* positions of the last '.' and the last 'e'/'E' in v (0: none)
LastOf(v, cs) ==
    LET at == {k \in 1..Len(v) : v[k] \in cs}
    IN  IF at = {} THEN 0 ELSE CHOOSE k \in at : \A j \in at : j <= k

check_float(v) ==
    LET r == LastOf(v, {46})
        e == LastOf(v, {69, 101})
    IN  IF e # 0 /\ r # 0
        THEN /\ r < e
             /\ check_int(SubSeq(v, 1, r - 1))
             /\ check_dec(SubSeq(v, r + 1, e - 1))
             /\ check_exp(SubSeq(v, e + 1, Len(v)))
        ELSE IF e # 0
        THEN check_int(SubSeq(v, 1, e - 1)) /\ check_exp(SubSeq(v, e + 1, Len(v)))
        ELSE check_int(SubSeq(v, 1, r - 1)) /\ check_dec(SubSeq(v, r + 1, Len(v)))

\* the offset after the closing quote of the "..." string opened at i - 1,
\* or 0 when the string is not terminated on its line
RECURSIVE ScanString(_, _, _)
ScanString(s, i, escaped) ==
    IF i > Len(s) THEN 0
    ELSE IF s[i] = 34 /\ ~escaped THEN i + 1
    ELSE IF s[i] = 10 THEN 0
    ELSE ScanString(s, i + 1, ~escaped /\ s[i] = 92)

\* the offset after the closing """ of the block string whose body starts at
\* body, searching from i; a """ preceded by a backslash does not close it
RECURSIVE ScanBlock(_, _, _)
ScanBlock(s, body, i) ==
    IF i + 2 > Len(s) THEN 0
    ELSE IF StartsWithAt(s, i, <<34, 34, 34>>)
    THEN IF i > body /\ s[i - 1] = 92
         THEN ScanBlock(s, body, i + 3)
         ELSE i + 3
    ELSE ScanBlock(s, body, i + 1)

Tok(kind, s, i, j) == [tag |-> "Ok", kind |-> kind, value |-> SubSeq(s, i, j - 1), next |-> j]
LexErr(what, text) == [tag |-> "Err", what |-> what, text |-> text]
EndOfInput == [tag |-> "Eoi"]

\* take_token: the token starting at offset i of s
take_token(s, i) ==
    IF i > Len(s) THEN EndOfInput
    ELSE LET c == s[i] IN
    IF c \in PunctChars THEN Tok("Punctuator", s, i, i + 1)
    ELSE IF c = 46
    THEN IF StartsWithAt(s, i, <<46, 46, 46>>)
         THEN Tok("Punctuator", s, i, i + 3)
         ELSE LexErr("bare dot is not supported, only \"...\"", <<c>>)
    ELSE IF c \in Letters THEN Tok("Name", s, i, ScanName(s, i + 1))
    ELSE IF c = 45 \/ c \in Digits
    THEN LET j == ScanNumber(s, i + 1)
             v == SubSeq(s, i, j - 1)
         IN  IF \E k \in 1..Len(v) : v[k] \in {46, 69, 101}
             THEN IF check_float(v) THEN Tok("FloatValue", s, i, j)
                  ELSE LexErr("unsupported float", v)
             ELSE IF check_int(v) THEN Tok("IntValue", s, i, j)
                  ELSE LexErr("unsupported integer", v)
    ELSE IF c = 34
    THEN IF StartsWithAt(s, i, <<34, 34, 34>>)
         THEN LET j == ScanBlock(s, i + 3, i + 3)
              IN  IF j = 0 THEN LexErr("unterminated block string value", <<>>)
                  ELSE Tok("BlockString", s, i, j)
         ELSE LET j == ScanString(s, i + 1, FALSE)
              IN  IF j = 0 THEN LexErr("unterminated string value", <<>>)
                  ELSE Tok("StringValue", s, i, j)
    ELSE LexErr("unexpected character", <<c>>)

\* TokenStream::new: the stream starts at the first token
TokenStream_new(s) == skip_whitespace(s, 1)

\* StreamOnce::uncons: the token at off; next is the offset of the token
\* after it (the ignored characters that follow are skipped)
uncons(s, i) ==
    LET t == take_token(s, i)
    IN  IF t.tag = "Ok" THEN [t EXCEPT !.next = skip_whitespace(s, t.next)] ELSE t

\* combine::easy::Error's Display, e.to_string(): "Unexpected <message>"
to_string(e) == <<"Unexpected ", e.what, e.text>>

(***************************************************************************)
(* minify_query (lines 11-35): one action per turn of the loop.            *)
(***************************************************************************)
Ok(text) == [tag |-> "Ok", value |-> text]
\* MinifyError(String), lines 7-9
MinifyError(msg) == [tag |-> "Err", error |-> msg]
\* #[error("query minify error: {}", _0)]
Display(err) == <<"query minify error: ", err.error>>

\* line 20
IsNonPunctuator(token) == token.kind # "Punctuator"

\* faulty variants of lines 22-26: a space after every word-like token; no
\* space at all; a comma for the space
PushTokenAfterWord(bs, prev, token) ==
    IF prev
    THEN Append(Append(bs, <<32>>), token.value)
    ELSE Append(bs, token.value)

PushTokenUnspaced(bs, prev, token) == Append(bs, token.value)

PushTokenComma(bs, prev, token) ==
    IF prev /\ IsNonPunctuator(token)
    THEN Append(Append(bs, <<44>>), token.value)
    ELSE Append(bs, token.value)

\* lines 22-26: what one token appends to bits
PushToken(bs, prev, token) ==
    IF prev /\ IsNonPunctuator(token)
    THEN Append(Append(bs, <<32>>), token.value)
    ELSE Append(bs, token.value)

\* the text the call in progress minifies: the caller's source text, then
\* (second call) the text the first call returned
Input == IF round = 1 THEN source ELSE first[1].value

\* lines 18-28
QueryToken ==
    /\ qpc = "loop"
    /\ LET x == uncons(Input, off) IN
       /\ x.tag = "Ok"
       /\ bits' = PushToken(bits, prev_was_punctuator, x)
       /\ prev_was_punctuator' = IsNonPunctuator(x)
       /\ off' = x.next
    /\ UNCHANGED <<source, qpc, qres, round, first>>
    /\ UNCHANGED dvars

\* lines 29 and 34
QueryEnd ==
    /\ qpc = "loop"
    /\ uncons(Input, off).tag = "Eoi"
    /\ qres' = <<Ok(Concat(bits))>>
    /\ qpc' = "done"
    /\ UNCHANGED <<source, off, bits, prev_was_punctuator, round, first>>
    /\ UNCHANGED dvars

\* faulty variant of line 30: the text built so far is returned
QueryErrorPartial ==
    /\ qpc = "loop"
    /\ uncons(Input, off).tag = "Err"
    /\ qres' = <<Ok(Concat(bits))>>
    /\ qpc' = "done"
    /\ UNCHANGED <<source, off, bits, prev_was_punctuator, round, first>>
    /\ UNCHANGED dvars

\* line 30
QueryError ==
    /\ qpc = "loop"
    /\ LET e == uncons(Input, off) IN
       /\ e.tag = "Err"
       /\ qres' = <<MinifyError(to_string(e))>>
    /\ qpc' = "done"
    /\ UNCHANGED <<source, off, bits, prev_was_punctuator, round, first>>
    /\ UNCHANGED dvars

\* the caller minifies the text its first call returned (lines 11-14 again)
Reminify ==
    /\ qpc = "done"
    /\ round = 1
    /\ qres[1].tag = "Ok"
    /\ first' = qres
    /\ off' = TokenStream_new(qres[1].value)
    /\ bits' = <<>>
    /\ prev_was_punctuator' = FALSE
    /\ qres' = <<>>
    /\ qpc' = "loop"
    /\ round' = 2
    /\ UNCHANGED source
    /\ UNCHANGED dvars

(***************************************************************************)
(* super::ast as minify.rs reads it.  Every node is a record tagged by its *)
(* variant:                                                                *)
(*   Document      [definitions]                                           *)
(*   Definition    [def |-> "Operation", op] or [def |-> "Fragment", name, *)
(*                  type_condition, directives, selection_set]             *)
(*   OperationDefinition  [variant |-> "SelectionSet", selection_set] or   *)
(*                 [variant |-> "Query" | "Mutation" | "Subscription",     *)
(*                  name, variable_definitions, directives, selection_set] *)
(*   SelectionSet  [items]                                                 *)
(*   Selection     [sel |-> "Field", alias, name, arguments, directives,   *)
(*                  selection_set], [sel |-> "FragmentSpread",             *)
(*                  fragment_name, directives], [sel |-> "InlineFragment", *)
(*                  type_condition, directives, selection_set]             *)
(*   TypeCondition [on]                                                    *)
(*   VariableDefinition [name, var_type, default_value]                    *)
(*   Type          [ty |-> "NamedType", name], [ty |-> "ListType", inner], *)
(*                 [ty |-> "NonNullType", inner]                           *)
(*   Directive     [name, arguments]      an argument is <<name, value>>   *)
(*   Value         [val |-> "Variable", name], [val |-> "Int", n],         *)
(*                 [val |-> "Float", f], [val |-> "String", s],            *)
(*                 [val |-> "Boolean", b], [val |-> "Null"],               *)
(*                 [val |-> "Enum", name], [val |-> "List", items],        *)
(*                 [val |-> "Object", fields]                              *)
(* An f64 is kept as the decimal [neg, mant, scale] = (-1)^neg * mant /    *)
(* 10^scale with mant not a multiple of 10 unless scale = 0: the inputs    *)
(* are short decimals, which f64 holds and prints without rounding.        *)
(***************************************************************************)
\* i64::to_string of a natural number
RECURSIVE NatToText(_)
NatToText(n) ==
    IF n < 10 THEN <<48 + n>> ELSE Append(NatToText(n \div 10), 48 + (n % 10))

\* line 231: n.0.to_string()
IntToText(n) == IF n < 0 THEN <<45>> \o NatToText(0 - n) ELSE NatToText(n)

RECURSIVE Pow10(_)
Pow10(k) == IF k = 0 THEN 1 ELSE 10 * Pow10(k - 1)

\* the last k decimal digits of n, with leading zeros
RECURSIVE LowDigits(_, _)
LowDigits(n, k) ==
    IF k = 0 THEN <<>> ELSE Append(LowDigits(n \div 10, k - 1), 48 + (n % 10))

\* line 232: f.to_string(), f64's Display: no exponent, no ".0"
FloatToText(f) ==
    (IF f.neg THEN <<45>> ELSE <<>>)
    \o NatToText(f.mant \div Pow10(f.scale))
    \o (IF f.scale = 0 THEN <<>> ELSE <<46>> \o LowDigits(f.mant, f.scale))

\* char::is_control: the general category Cc
is_control(c) == c \in 0..31 \/ c \in 127..159

HexDigit(d) == IF d < 10 THEN 48 + d ELSE 97 + (d - 10)

RECURSIVE HexText(_)
HexText(n) ==
    IF n < 16 THEN <<HexDigit(n)>> ELSE Append(HexText(n \div 16), HexDigit(n % 16))

\* faulty variant of line 249: "{:x}", no padding
Hex04Unpadded(n) == HexText(n)

\* "{:04x}": lowercase hex, zero-padded to a width of at least 4
Hex04(n) ==
    LET h == HexText(n)
    IN  [k \in 1..(4 - Min(4, Len(h))) |-> 48] \o h

\* faulty variant of lines 239-252: the arm for the backslash is missing
EscapeCharRaw(c) ==
    CASE c = 8  -> <<92, 98>>
      [] c = 12 -> <<92, 102>>
      [] c = 13 -> <<92, 114>>
      [] c = 10 -> <<92, 110>>
      [] c = 9  -> <<92, 116>>
      [] c = 34 -> <<92, 34>>
      [] OTHER  -> IF is_control(c) THEN <<92, 117>> \o Hex04(c) ELSE <<c>>

\* lines 239-252: what one character of a string value appends to buf
EscapeChar(c) ==
    CASE c = 8  -> <<92, 98>>             \* '\x08' => "\\b"
      [] c = 12 -> <<92, 102>>            \* '\x0c' => "\\f"
      [] c = 13 -> <<92, 114>>            \* '\r' => "\\r"
      [] c = 10 -> <<92, 110>>            \* '\n' => "\\n"
      [] c = 9  -> <<92, 116>>            \* '\t' => "\\t"
      [] c = 34 -> <<92, 34>>             \* '"' => "\\\""
      [] c = 92 -> <<92, 92>>             \* '\\' => "\\\\"
      [] OTHER  -> IF is_control(c) THEN <<92, 117>> \o Hex04(c) ELSE <<c>>

\* lines 237-254: the literal written for Value::String(s)
StringLiteral(s) ==
    <<34>> \o Concat([k \in 1..Len(s) |-> EscapeChar(s[k])]) \o <<34>>

(***************************************************************************)
(* struct Minifier (lines 44-278).  A call in progress is a frame          *)
(* [fn, arg] on stack; an action runs the body of the function on top: it  *)
(* pops the frame and pushes the calls the body makes, in order.           *)
(***************************************************************************)
Call(fn, arg) == [fn |-> fn, arg |-> arg]
W(s) == Call("write_non_punctuator", s)
P(s) == Call("write_punctuator", s)
Each(fn, xs) == [k \in 1..Len(xs) |-> Call(fn, xs[k])]

Top(fn) == stack # <<>> /\ Head(stack).fn = fn
Push(calls) == stack' = calls \o Tail(stack)
Fragment(word, text) == [word |-> word, text |-> text]

\* faulty variant of lines 38-39: the call writes on with the buffer and the
\* flag the call before it left
minify_document_shared ==
    /\ Top("minify_document")
    /\ Push(<<Call("write_document", Head(stack).arg), Call("return", <<>>)>>)
    /\ UNCHANGED <<doc, buf, last_was_non_punctuator, dres, emitted>>
    /\ UNCHANGED qvars

\* lines 38-42 with Minifier::new (lines 50-55): a new buffer, of which
\* nothing has been written
minify_document ==
    /\ Top("minify_document")
    /\ buf' = <<>>
    /\ last_was_non_punctuator' = FALSE
    /\ emitted' = <<>>
    /\ Push(<<Call("write_document", Head(stack).arg), Call("return", <<>>)>>)
    /\ UNCHANGED <<doc, dres>>
    /\ UNCHANGED qvars

\* the caller calls minify_document on the document once more (line 38);
\* buf and last_was_non_punctuator hold what the call before left
minify_document_again ==
    /\ stack = <<>>
    /\ dres # <<>>
    /\ stack' = <<Call("minify_document", doc)>>
    /\ dres' = <<>>
    /\ UNCHANGED <<doc, buf, last_was_non_punctuator, emitted>>
    /\ UNCHANGED qvars

\* line 41: minifier.buf is the value returned
minify_document_return ==
    /\ Top("return")
    /\ dres' = <<buf>>
    /\ Push(<<>>)
    /\ UNCHANGED <<doc, buf, last_was_non_punctuator, emitted>>
    /\ UNCHANGED qvars

\* lines 57-63
write_non_punctuator ==
    /\ Top("write_non_punctuator")
    /\ LET s == Head(stack).arg IN
       /\ buf' = (IF last_was_non_punctuator THEN Append(buf, 32) ELSE buf) \o s
       /\ emitted' = Append(emitted, Fragment(TRUE, s))
    /\ last_was_non_punctuator' = TRUE
    /\ Push(<<>>)
    /\ UNCHANGED <<doc, dres>>
    /\ UNCHANGED qvars

\* lines 65-68
write_punctuator ==
    /\ Top("write_punctuator")
    /\ LET s == Head(stack).arg IN
       /\ buf' = buf \o s
       /\ emitted' = Append(emitted, Fragment(FALSE, s))
    /\ last_was_non_punctuator' = FALSE
    /\ Push(<<>>)
    /\ UNCHANGED <<doc, dres>>
    /\ UNCHANGED qvars

\* an action that writes nothing itself
Expand(calls) ==
    /\ Push(calls)
    /\ UNCHANGED <<doc, buf, last_was_non_punctuator, dres, emitted>>
    /\ UNCHANGED qvars

\* lines 70-74
write_document ==
    /\ Top("write_document")
    /\ Expand(Each("write_definition", Head(stack).arg.definitions))

\* lines 76-81
write_definition ==
    /\ Top("write_definition")
    /\ LET d == Head(stack).arg IN
       Expand(IF d.def = "Operation"
              THEN <<Call("write_operation", d.op)>>
              ELSE <<Call("write_fragment", d)>>)

\* lines 87, 96, 105
Keyword(variant) ==
    CASE variant = "Query" -> <<113, 117, 101, 114, 121>>
      [] variant = "Mutation" -> <<109, 117, 116, 97, 116, 105, 111, 110>>
      [] variant = "Subscription" ->
            <<115, 117, 98, 115, 99, 114, 105, 112, 116, 105, 111, 110>>

\* faulty variant of lines 84-113: a query with no name, variables and
\* directives is written as the shorthand
OperationCallsShort(op) ==
    IF op.variant = "SelectionSet"
       \/ (op.variant = "Query" /\ op.name = <<>> /\ op.variable_definitions = <<>>
           /\ op.directives = <<>>)
    THEN <<Call("write_selection_set", op.selection_set)>>
    ELSE <<W(Keyword(op.variant))>>
         \o Each("write_non_punctuator", op.name)
         \o <<Call("write_variable_definitions", op.variable_definitions),
              Call("write_directives", op.directives),
              Call("write_selection_set", op.selection_set)>>

\* faulty variant of lines 84-113: the directives of a typed operation are
\* written before its variable definitions
OperationCallsSwapped(op) ==
    IF op.variant = "SelectionSet"
    THEN <<Call("write_selection_set", op.selection_set)>>
    ELSE <<W(Keyword(op.variant))>>
         \o Each("write_non_punctuator", op.name)
         \o <<Call("write_directives", op.directives),
              Call("write_variable_definitions", op.variable_definitions),
              Call("write_selection_set", op.selection_set)>>

\* lines 84-113: the calls write_operation makes
OperationCalls(op) ==
    IF op.variant = "SelectionSet"
    THEN <<Call("write_selection_set", op.selection_set)>>
    ELSE <<W(Keyword(op.variant))>>
         \o Each("write_non_punctuator", op.name)
         \o <<Call("write_variable_definitions", op.variable_definitions),
              Call("write_directives", op.directives),
              Call("write_selection_set", op.selection_set)>>

\* lines 83-114
write_operation ==
    /\ Top("write_operation")
    /\ Expand(OperationCalls(Head(stack).arg))

\* lines 116-122
write_fragment ==
    /\ Top("write_fragment")
    /\ LET frag == Head(stack).arg IN
       Expand(<<W(<<102, 114, 97, 103, 109, 101, 110, 116>>),
                W(frag.name),
                Call("write_type_condition", frag.type_condition),
                Call("write_directives", frag.directives),
                Call("write_selection_set", frag.selection_set)>>)

\* faulty variant of lines 124-130: a selection set without items is not
\* written
write_selection_set_elided ==
    /\ Top("write_selection_set")
    /\ Expand(IF Head(stack).arg.items = <<>> THEN <<>>
              ELSE <<P(<<123>>)>>
                   \o Each("write_selection", Head(stack).arg.items)
                   \o <<P(<<125>>)>>)

\* lines 124-130
write_selection_set ==
    /\ Top("write_selection_set")
    /\ Expand(<<P(<<123>>)>>
              \o Each("write_selection", Head(stack).arg.items)
              \o <<P(<<125>>)>>)

\* faulty variant of lines 134-145: the test of line 142 is missing
FieldCallsAlways(f) ==
    (IF f.alias # <<>> THEN <<W(f.alias[1]), P(<<58>>)>> ELSE <<>>)
    \o <<W(f.name),
         Call("write_arguments", f.arguments),
         Call("write_directives", f.directives),
         Call("write_selection_set", f.selection_set)>>

\* lines 134-145: the calls write_selection makes for a Field
FieldCalls(f) ==
    (IF f.alias # <<>> THEN <<W(f.alias[1]), P(<<58>>)>> ELSE <<>>)
    \o <<W(f.name),
         Call("write_arguments", f.arguments),
         Call("write_directives", f.directives)>>
    \o (IF f.selection_set.items # <<>>
        THEN <<Call("write_selection_set", f.selection_set)>>
        ELSE <<>>)

\* lines 132-160
write_selection ==
    /\ Top("write_selection")
    /\ LET x == Head(stack).arg IN
       Expand(CASE x.sel = "Field" -> FieldCalls(x)
                [] x.sel = "FragmentSpread" ->
                     <<P(<<46, 46, 46>>),
                       W(x.fragment_name),
                       Call("write_directives", x.directives)>>
                [] x.sel = "InlineFragment" ->
                     <<P(<<46, 46, 46>>)>>
                     \o Each("write_type_condition", x.type_condition)
                     \o <<Call("write_directives", x.directives),
                          Call("write_selection_set", x.selection_set)>>)

\* lines 162-169
write_type_condition ==
    /\ Top("write_type_condition")
    /\ Expand(<<W(<<111, 110>>), W(Head(stack).arg.on)>>)

\* lines 177-184: the calls made for one variable definition
VariableCalls(var) ==
    <<P(<<36>>), W(var.name), P(<<58>>), Call("write_type", var.var_type)>>
    \o (IF var.default_value # <<>>
        THEN <<P(<<61>>), Call("write_value", var.default_value[1])>>
        ELSE <<>>)

\* lines 171-187
write_variable_definitions ==
    /\ Top("write_variable_definitions")
    /\ LET vs == Head(stack).arg IN
       Expand(IF vs = <<>> THEN <<>>
              ELSE <<P(<<40>>)>>
                   \o Concat([k \in 1..Len(vs) |-> VariableCalls(vs[k])])
                   \o <<P(<<41>>)>>)

\* lines 189-202
write_type ==
    /\ Top("write_type")
    /\ LET ty == Head(stack).arg IN
       Expand(CASE ty.ty = "NamedType" -> <<W(ty.name)>>
                [] ty.ty = "ListType" ->
                     <<P(<<91>>), Call("write_type", ty.inner), P(<<93>>)>>
                [] ty.ty = "NonNullType" ->
                     <<Call("write_type", ty.inner), P(<<33>>)>>)

\* lines 204-210
write_directives ==
    /\ Top("write_directives")
    /\ LET dirs == Head(stack).arg IN
       Expand(Concat([k \in 1..Len(dirs) |->
                         <<P(<<64>>), W(dirs[k].name),
                           Call("write_arguments", dirs[k].arguments)>>]))

\* lines 217-221 and 269-273: the calls made for the pairs (name, value)
PairCalls(pairs) ==
    Concat([k \in 1..Len(pairs) |->
               <<W(pairs[k][1]), P(<<58>>), Call("write_value", pairs[k][2])>>])

\* faulty variant of lines 212-223: the test of lines 213-215 is missing
write_arguments_always ==
    /\ Top("write_arguments")
    /\ Expand(<<P(<<40>>)>> \o PairCalls(Head(stack).arg) \o <<P(<<41>>)>>)

\* lines 212-223
write_arguments ==
    /\ Top("write_arguments")
    /\ LET args == Head(stack).arg IN
       Expand(IF args = <<>> THEN <<>>
              ELSE <<P(<<40>>)>> \o PairCalls(args) \o <<P(<<41>>)>>)

\* faulty variant of lines 225-277: write_value calls itself on its argument
ValueCallsAgain(v) == <<Call("write_value", v)>>

\* lines 227-232 and 257-275: the calls write_value makes for every variant
\* but String
ValueCalls(v) ==
    CASE v.val = "Variable" -> <<P(<<36>>), W(v.name)>>
      [] v.val = "Int" -> <<W(IntToText(v.n))>>
      [] v.val = "Float" -> <<W(FloatToText(v.f))>>
      [] v.val = "Boolean" ->
            <<W(IF v.b THEN <<116, 114, 117, 101>> ELSE <<102, 97, 108, 115, 101>>)>>
      [] v.val = "Null" -> <<W(<<110, 117, 108, 108>>)>>
      [] v.val = "Enum" -> <<W(v.name)>>
      [] v.val = "List" ->
            <<P(<<91>>)>> \o Each("write_value", v.items) \o <<P(<<93>>)>>
      [] v.val = "Object" ->
            <<P(<<123>>)>> \o PairCalls(v.fields) \o <<P(<<125>>)>>

\* lines 225-277, every variant but String
write_value ==
    /\ Top("write_value")
    /\ Head(stack).arg.val # "String"
    /\ Expand(ValueCalls(Head(stack).arg))

\* faulty variant of lines 233-256: line 255 is missing, the flag stays as
\* it was
write_value_String_unflagged ==
    /\ Top("write_value")
    /\ Head(stack).arg.val = "String"
    /\ LET lit == StringLiteral(Head(stack).arg.s) IN
       /\ buf' = (IF last_was_non_punctuator THEN Append(buf, 32) ELSE buf) \o lit
       /\ emitted' = Append(emitted, Fragment(TRUE, lit))
    /\ Push(<<>>)
    /\ UNCHANGED <<doc, dres, last_was_non_punctuator>>
    /\ UNCHANGED qvars

\* lines 233-256: Value::String writes to buf directly
write_value_String ==
    /\ Top("write_value")
    /\ Head(stack).arg.val = "String"
    /\ LET lit == StringLiteral(Head(stack).arg.s) IN
       /\ buf' = (IF last_was_non_punctuator THEN Append(buf, 32) ELSE buf) \o lit
       /\ emitted' = Append(emitted, Fragment(TRUE, lit))
    /\ last_was_non_punctuator' = TRUE
    /\ Push(<<>>)
    /\ UNCHANGED <<doc, dres>>
    /\ UNCHANGED qvars

\* constructors of the syntax tree
Variable(n) == [val |-> "Variable", name |-> n]
IntV(n) == [val |-> "Int", n |-> n]
FloatV(neg, mant, scale) ==
    [val |-> "Float", f |-> [neg |-> neg, mant |-> mant, scale |-> scale]]
StringV(s) == [val |-> "String", s |-> s]
BooleanV(b) == [val |-> "Boolean", b |-> b]
NullV == [val |-> "Null"]
EnumV(n) == [val |-> "Enum", name |-> n]
ListV(items) == [val |-> "List", items |-> items]
ObjectV(fields) == [val |-> "Object", fields |-> fields]
NamedType(n) == [ty |-> "NamedType", name |-> n]
ListType(t) == [ty |-> "ListType", inner |-> t]
NonNullType(t) == [ty |-> "NonNullType", inner |-> t]
Directive(n, args) == [name |-> n, arguments |-> args]
On(n) == [on |-> n]
SelectionSet(items) == [items |-> items]
Field(alias, n, args, dirs, items) ==
    [sel |-> "Field", alias |-> alias, name |-> n, arguments |-> args,
     directives |-> dirs, selection_set |-> SelectionSet(items)]
FragmentSpread(n, dirs) ==
    [sel |-> "FragmentSpread", fragment_name |-> n, directives |-> dirs]
InlineFragment(tc, dirs, items) ==
    [sel |-> "InlineFragment", type_condition |-> tc, directives |-> dirs,
     selection_set |-> SelectionSet(items)]
VariableDefinition(n, t, d) == [name |-> n, var_type |-> t, default_value |-> d]
Shorthand(items) ==
    [def |-> "Operation",
     op |-> [variant |-> "SelectionSet", selection_set |-> SelectionSet(items)]]
Operation(variant, n, vds, dirs, items) ==
    [def |-> "Operation",
     op |-> [variant |-> variant, name |-> n, variable_definitions |-> vds,
             directives |-> dirs, selection_set |-> SelectionSet(items)]]
FragmentDefinition(n, tc, dirs, items) ==
    [def |-> "Fragment", name |-> n, type_condition |-> tc, directives |-> dirs,
     selection_set |-> SelectionSet(items)]
Document(defs) == [definitions |-> defs]
EmptyDocument == Document(<<>>)

(***************************************************************************)
(* crate::parser::query::grammar::parse_query, as the tests of lines       *)
(* 341-373 call it: the document the grammar of the query language gives a *)
(* source text.  A parse result is [ok |-> TRUE, v, i] (the value and the  *)
(* index of the next token) or Fail.                                       *)
(***************************************************************************)
\* the tokens of a source text from offset i on: [ok |-> TRUE, v |-> tokens],
\* or [ok |-> FALSE] when the tokenizer fails on the way
RECURSIVE TokensFrom(_, _)
TokensFrom(s, i) ==
    LET t == uncons(s, i)
    IN  IF t.tag = "Eoi" THEN [ok |-> TRUE, v |-> <<>>]
        ELSE IF t.tag = "Err" THEN [ok |-> FALSE]
        ELSE LET rest == TokensFrom(s, t.next)
             IN  IF ~rest.ok THEN rest
                 ELSE [ok |-> TRUE,
                       v |-> <<[kind |-> t.kind, value |-> t.value]>> \o rest.v]

Tokenizes(s) == TokensFrom(s, TokenStream_new(s)).ok
Tokens(s) == TokensFrom(s, TokenStream_new(s)).v

Fail == [ok |-> FALSE]
Parsed(v, i) == [ok |-> TRUE, v |-> v, i |-> i]

IsPunct(ts, i, p) == i <= Len(ts) /\ ts[i].kind = "Punctuator" /\ ts[i].value = p
IsName(ts, i) == i <= Len(ts) /\ ts[i].kind = "Name"
IsIdent(ts, i, w) == IsName(ts, i) /\ ts[i].value = w

RECURSIVE TextToNat(_)
TextToNat(v) ==
    IF v = <<>> THEN 0 ELSE 10 * TextToNat(SubSeq(v, 1, Len(v) - 1)) + (v[Len(v)] - 48)

\* i64::from_str of an IntValue
TextToInt(v) == IF v[1] = 45 THEN 0 - TextToNat(Tail(v)) ELSE TextToNat(v)

RECURSIVE Normalized(_)
Normalized(f) ==
    IF f.scale > 0 /\ f.mant % 10 = 0
    THEN Normalized([f EXCEPT !.mant = f.mant \div 10, !.scale = f.scale - 1])
    ELSE f

\* f64::from_str of a FloatValue: int part, fraction, exponent
TextToFloat(v) ==
    LET neg == v[1] = 45
        u == IF neg THEN Tail(v) ELSE v
        e == LastOf(u, {69, 101})
        m == IF e = 0 THEN u ELSE SubSeq(u, 1, e - 1)
        x == IF e = 0 THEN <<>> ELSE SubSeq(u, e + 1, Len(u))
        r == LastOf(m, {46})
        ip == IF r = 0 THEN m ELSE SubSeq(m, 1, r - 1)
        fr == IF r = 0 THEN <<>> ELSE SubSeq(m, r + 1, Len(m))
        ex == IF x = <<>> THEN 0
              ELSE IF x[1] = 45 THEN 0 - TextToNat(Tail(x))
              ELSE IF x[1] = 43 THEN TextToNat(Tail(x))
              ELSE TextToNat(x)
        mant == TextToNat(ip \o fr)
        scale == Len(fr) - ex
    IN  IF scale >= 0
        THEN Normalized([neg |-> neg, mant |-> mant, scale |-> scale])
        ELSE [neg |-> neg, mant |-> mant * Pow10(0 - scale), scale |-> 0]

HexValue(c) ==
    IF c \in Digits THEN c - 48
    ELSE IF c \in 97..102 THEN c - 87
    ELSE IF c \in 65..70 THEN c - 55
    ELSE -1

\* the characters a string literal's body (between the quotes) stands for
\* under the language's escapes: \" \\ \/ \b \f \n \r \t \uXXXX;
\* [ok |-> FALSE] for any other escape
RECURSIVE Unescape(_, _)
Unescape(v, i) ==
    IF i > Len(v) THEN [ok |-> TRUE, v |-> <<>>]
    ELSE LET c == IF i < Len(v) THEN v[i + 1] ELSE -1
             simple == CASE c = 34 -> 34 [] c = 92 -> 92 [] c = 47 -> 47
                         [] c = 98 -> 8 [] c = 102 -> 12 [] c = 110 -> 10
                         [] c = 114 -> 13 [] c = 116 -> 9 [] OTHER -> -1
             hex == c = 117 /\ i + 5 <= Len(v)
                    /\ \A k \in 2..5 : HexValue(v[i + k]) # -1
             code == 4096 * HexValue(v[i + 2]) + 256 * HexValue(v[i + 3])
                     + 16 * HexValue(v[i + 4]) + HexValue(v[i + 5])
             char == IF v[i] # 92 THEN v[i] ELSE IF hex THEN code ELSE simple
             used == IF v[i] # 92 THEN 1 ELSE IF hex THEN 6 ELSE 2
         IN  IF char = -1 THEN [ok |-> FALSE]
             ELSE LET rest == Unescape(v, i + used)
                  IN  IF rest.ok THEN [ok |-> TRUE, v |-> <<char>> \o rest.v]
                      ELSE rest

\* unquote_string: the value of the literal "..."
unquote_string(lit) == Unescape(SubSeq(lit, 2, Len(lit) - 1), 1)

\* the lines of a text, split at \n, \r\n and \r
RECURSIVE Lines(_, _, _)
Lines(v, i, cur) ==
    IF i > Len(v) THEN <<cur>>
    ELSE IF v[i] = 10 THEN <<cur>> \o Lines(v, i + 1, <<>>)
    ELSE IF v[i] = 13
    THEN <<cur>> \o Lines(v, IF i < Len(v) /\ v[i + 1] = 10 THEN i + 2 ELSE i + 1, <<>>)
    ELSE Lines(v, i + 1, Append(cur, v[i]))

\* the number of leading spaces and tabs of a line
RECURSIVE Indent(_)
Indent(l) == IF l # <<>> /\ l[1] \in {32, 9} THEN 1 + Indent(Tail(l)) ELSE 0
Blank(l) == Indent(l) = Len(l)

RECURSIVE DropBlankHead(_)
DropBlankHead(ls) ==
    IF ls # <<>> /\ Blank(ls[1]) THEN DropBlankHead(Tail(ls)) ELSE ls

RECURSIVE DropBlankTail(_)
DropBlankTail(ls) ==
    IF ls # <<>> /\ Blank(ls[Len(ls)])
    THEN DropBlankTail(SubSeq(ls, 1, Len(ls) - 1)) ELSE ls

\* \""" stands for """ in a block string
RECURSIVE UnescapeBlock(_, _)
UnescapeBlock(v, i) ==
    IF i > Len(v) THEN <<>>
    ELSE IF StartsWithAt(v, i, <<92, 34, 34, 34>>)
    THEN <<34, 34, 34>> \o UnescapeBlock(v, i + 4)
    ELSE <<v[i]>> \o UnescapeBlock(v, i + 1)

RECURSIVE JoinLines(_)
JoinLines(ls) ==
    IF ls = <<>> THEN <<>>
    ELSE IF Len(ls) = 1 THEN ls[1]
    ELSE ls[1] \o <<10>> \o JoinLines(Tail(ls))

\* unquote_block_string: the value of the literal """...""": the common
\* indentation of the lines after the first is removed, then the blank
\* lines at both ends
unquote_block_string(lit) ==
    LET ls == Lines(UnescapeBlock(SubSeq(lit, 4, Len(lit) - 3), 1), 1, <<>>)
        ins == {Indent(ls[k]) : k \in {j \in 2..Len(ls) : ~Blank(ls[j])}}
        common == IF ins = {} THEN 0 ELSE CHOOSE n \in ins : \A m \in ins : n <= m
        cut == [k \in 1..Len(ls) |->
                   IF k = 1 THEN ls[k]
                   ELSE SubSeq(ls[k], Min(common, Len(ls[k])) + 1, Len(ls[k]))]
    IN  JoinLines(DropBlankTail(DropBlankHead(cut)))

\* a rule applies another through Parse(rule, ts, i, const), defined below
RECURSIVE Parse(_, _, _, _)


\* value, or default_value when const (no variables)
ParseValue(ts, i, const) ==
    IF i > Len(ts) THEN Fail
    ELSE LET t == ts[i] IN
    CASE IsPunct(ts, i, <<36>>) ->
           IF ~const /\ IsName(ts, i + 1)
           THEN Parsed(Variable(ts[i + 1].value), i + 2) ELSE Fail
      [] IsPunct(ts, i, <<91>>) ->
           LET r == Parse("value_list", ts, i + 1, const)
           IN  IF r.ok /\ IsPunct(ts, r.i, <<93>>)
               THEN Parsed(ListV(r.v), r.i + 1) ELSE Fail
      [] IsPunct(ts, i, <<123>>) ->
           LET r == Parse("pairs", ts, i + 1, const)
           IN  IF r.ok /\ IsPunct(ts, r.i, <<125>>)
               THEN Parsed(ObjectV(r.v), r.i + 1) ELSE Fail
      [] t.kind = "IntValue" -> Parsed(IntV(TextToInt(t.value)), i + 1)
      [] t.kind = "FloatValue" ->
           Parsed([val |-> "Float", f |-> TextToFloat(t.value)], i + 1)
      [] t.kind = "StringValue" ->
           LET v == unquote_string(t.value)
           IN  IF v.ok THEN Parsed(StringV(v.v), i + 1) ELSE Fail
      [] t.kind = "BlockString" ->
           Parsed(StringV(unquote_block_string(t.value)), i + 1)
      [] t.kind = "Name" ->
           Parsed(CASE t.value = <<116, 114, 117, 101>> -> BooleanV(TRUE)
                    [] t.value = <<102, 97, 108, 115, 101>> -> BooleanV(FALSE)
                    [] t.value = <<110, 117, 108, 108>> -> NullV
                    [] OTHER -> EnumV(t.value), i + 1)
      [] OTHER -> Fail

\* many(value): up to the first token that starts no value
ParseValueList(ts, i, const) ==
    IF i > Len(ts) \/ IsPunct(ts, i, <<93>>) THEN Parsed(<<>>, i)
    ELSE LET r == Parse("value", ts, i, const)
         IN  IF ~r.ok THEN Fail
             ELSE LET rest == Parse("value_list", ts, r.i, const)
                  IN  IF rest.ok THEN Parsed(<<r.v>> \o rest.v, rest.i) ELSE Fail

\* many(name ":" value): the fields of an object, the arguments of a list.
\* The sources of the model write the names of an object in ascending
\* order and once each.
ParsePairs(ts, i, const) ==
    IF ~IsName(ts, i) THEN Parsed(<<>>, i)
    ELSE IF ~IsPunct(ts, i + 1, <<58>>) THEN Fail
    ELSE LET r == Parse("value", ts, i + 2, const)
         IN  IF ~r.ok THEN Fail
             ELSE LET rest == Parse("pairs", ts, r.i, const)
                  IN  IF rest.ok
                      THEN Parsed(<<<<ts[i].value, r.v>>>> \o rest.v, rest.i)
                      ELSE Fail

\* arguments: nothing, or "(" many1(name ":" value) ")"
ParseArguments(ts, i) ==
    IF ~IsPunct(ts, i, <<40>>) THEN Parsed(<<>>, i)
    ELSE LET r == Parse("pairs", ts, i + 1, FALSE)
         IN  IF r.ok /\ r.v # <<>> /\ IsPunct(ts, r.i, <<41>>)
             THEN Parsed(r.v, r.i + 1) ELSE Fail

\* directives: many("@" name arguments)
ParseDirectives(ts, i) ==
    IF ~IsPunct(ts, i, <<64>>) THEN Parsed(<<>>, i)
    ELSE IF ~IsName(ts, i + 1) THEN Fail
    ELSE LET a == Parse("arguments", ts, i + 2, FALSE)
         IN  IF ~a.ok THEN Fail
             ELSE LET rest == Parse("directives", ts, a.i, FALSE)
                  IN  IF rest.ok
                      THEN Parsed(<<Directive(ts[i + 1].value, a.v)>> \o rest.v, rest.i)
                      ELSE Fail

\* type: name or "[" type "]", then an optional "!"
ParseType(ts, i) ==
    LET base == IF IsName(ts, i) THEN Parsed(NamedType(ts[i].value), i + 1)
                ELSE IF IsPunct(ts, i, <<91>>)
                THEN LET r == Parse("type", ts, i + 1, FALSE)
                     IN  IF r.ok /\ IsPunct(ts, r.i, <<93>>)
                         THEN Parsed(ListType(r.v), r.i + 1) ELSE Fail
                ELSE Fail
    IN  IF base.ok /\ IsPunct(ts, base.i, <<33>>)
        THEN Parsed(NonNullType(base.v), base.i + 1)
        ELSE base

\* many("$" name ":" type optional("=" default_value))
ParseVariables(ts, i) ==
    IF ~IsPunct(ts, i, <<36>>) THEN Parsed(<<>>, i)
    ELSE IF ~(IsName(ts, i + 1) /\ IsPunct(ts, i + 2, <<58>>)) THEN Fail
    ELSE LET t == Parse("type", ts, i + 3, FALSE)
         IN  IF ~t.ok THEN Fail
             ELSE LET d == IF IsPunct(ts, t.i, <<61>>)
                           THEN Parse("value", ts, t.i + 1, TRUE)
                           ELSE Parsed(<<>>, t.i)
                  IN  IF ~d.ok THEN Fail
                      ELSE LET def == IF IsPunct(ts, t.i, <<61>>) THEN <<d.v>> ELSE <<>>
                               rest == Parse("variables", ts, d.i, FALSE)
                           IN  IF rest.ok
                               THEN Parsed(<<VariableDefinition(ts[i + 1].value, t.v, def)>>
                                           \o rest.v, rest.i)
                               ELSE Fail


\* selection_set: "{" many1(selection) "}"
ParseSelectionSet(ts, i) ==
    IF ~IsPunct(ts, i, <<123>>) THEN Fail
    ELSE LET r == Parse("selections", ts, i + 1, FALSE)
         IN  IF r.ok /\ r.v # <<>> /\ IsPunct(ts, r.i, <<125>>)
             THEN Parsed(r.v, r.i + 1) ELSE Fail

ParseSelections(ts, i) ==
    IF ~(IsName(ts, i) \/ IsPunct(ts, i, <<46, 46, 46>>)) THEN Parsed(<<>>, i)
    ELSE LET r == Parse("selection", ts, i, FALSE)
         IN  IF ~r.ok THEN Fail
             ELSE LET rest == Parse("selections", ts, r.i, FALSE)
                  IN  IF rest.ok THEN Parsed(<<r.v>> \o rest.v, rest.i) ELSE Fail

\* field: name optional(":" name) arguments directives optional(selection_set)
\* "..." then an inline fragment (optional("on" name) directives
\* selection_set) or else a fragment spread (name directives)
ParseSelection(ts, i) ==
    IF IsName(ts, i)
    THEN LET aliased == IsPunct(ts, i + 1, <<58>>)
             j == IF aliased THEN i + 3 ELSE i + 1
         IN  IF aliased /\ ~IsName(ts, i + 2) THEN Fail
             ELSE LET a == Parse("arguments", ts, j, FALSE)
                  IN  IF ~a.ok THEN Fail
                      ELSE LET d == Parse("directives", ts, a.i, FALSE)
                           IN  IF ~d.ok THEN Fail
                               ELSE LET body == IF IsPunct(ts, d.i, <<123>>)
                                                THEN Parse("selection_set", ts, d.i, FALSE)
                                                ELSE Parsed(<<>>, d.i)
                                    IN  IF ~body.ok THEN Fail
                                        ELSE Parsed(Field(IF aliased THEN <<ts[i].value>> ELSE <<>>,
                                                          IF aliased THEN ts[i + 2].value ELSE ts[i].value,
                                                          a.v, d.v, body.v), body.i)
    ELSE LET typed == IsIdent(ts, i + 1, <<111, 110>>) /\ IsName(ts, i + 2)
             j == IF typed THEN i + 3 ELSE i + 1
             d == Parse("directives", ts, j, FALSE)
             body == IF d.ok THEN Parse("selection_set", ts, d.i, FALSE) ELSE Fail
         IN  IF body.ok
             THEN Parsed(InlineFragment(IF typed THEN <<On(ts[i + 2].value)>> ELSE <<>>,
                                        d.v, body.v), body.i)
             ELSE IF ~IsName(ts, i + 1) THEN Fail
             ELSE LET e == Parse("directives", ts, i + 2, FALSE)
                  IN  IF e.ok THEN Parsed(FragmentSpread(ts[i + 1].value, e.v), e.i)
                      ELSE Fail

OperationKinds ==
    [k \in {"Query", "Mutation", "Subscription"} |-> Keyword(k)]

\* definition: a selection set; query, mutation or subscription with an
\* optional name, optional "(" many1(variable) ")", directives, selection
\* set; fragment name "on" name directives selection set
ParseDefinition(ts, i) ==
    IF IsPunct(ts, i, <<123>>)
    THEN LET r == Parse("selection_set", ts, i, FALSE)
         IN  IF r.ok THEN Parsed(Shorthand(r.v), r.i) ELSE Fail
    ELSE IF \E k \in DOMAIN OperationKinds : IsIdent(ts, i, OperationKinds[k])
    THEN LET kind == CHOOSE k \in DOMAIN OperationKinds : IsIdent(ts, i, OperationKinds[k])
             named == IsName(ts, i + 1)
             j == IF named THEN i + 2 ELSE i + 1
             vs == IF IsPunct(ts, j, <<40>>)
                   THEN LET r == Parse("variables", ts, j + 1, FALSE)
                        IN  IF r.ok /\ r.v # <<>> /\ IsPunct(ts, r.i, <<41>>)
                            THEN Parsed(r.v, r.i + 1) ELSE Fail
                   ELSE Parsed(<<>>, j)
             d == IF vs.ok THEN Parse("directives", ts, vs.i, FALSE) ELSE Fail
             body == IF d.ok THEN Parse("selection_set", ts, d.i, FALSE) ELSE Fail
         IN  IF body.ok
             THEN Parsed(Operation(kind, IF named THEN <<ts[i + 1].value>> ELSE <<>>,
                                   vs.v, d.v, body.v), body.i)
             ELSE Fail
    ELSE IF IsIdent(ts, i, <<102, 114, 97, 103, 109, 101, 110, 116>>)
            /\ IsName(ts, i + 1) /\ IsIdent(ts, i + 2, <<111, 110>>) /\ IsName(ts, i + 3)
    THEN LET d == Parse("directives", ts, i + 4, FALSE)
             body == IF d.ok THEN Parse("selection_set", ts, d.i, FALSE) ELSE Fail
         IN  IF body.ok
             THEN Parsed(FragmentDefinition(ts[i + 1].value, On(ts[i + 3].value),
                                            d.v, body.v), body.i)
             ELSE Fail
    ELSE Fail

\* document: many1(definition) up to the end of input
ParseDefinitions(ts, i) ==
    IF i > Len(ts) THEN Parsed(<<>>, i)
    ELSE LET r == Parse("definition", ts, i, FALSE)
         IN  IF ~r.ok THEN Fail
             ELSE LET rest == Parse("definitions", ts, r.i, FALSE)
                  IN  IF rest.ok THEN Parsed(<<r.v>> \o rest.v, rest.i) ELSE Fail

\* the grammar's rules by name
Parse(rule, ts, i, const) ==
    CASE rule = "value" -> ParseValue(ts, i, const)
      [] rule = "value_list" -> ParseValueList(ts, i, const)
      [] rule = "pairs" -> ParsePairs(ts, i, const)
      [] rule = "arguments" -> ParseArguments(ts, i)
      [] rule = "directives" -> ParseDirectives(ts, i)
      [] rule = "type" -> ParseType(ts, i)
      [] rule = "variables" -> ParseVariables(ts, i)
      [] rule = "selection_set" -> ParseSelectionSet(ts, i)
      [] rule = "selections" -> ParseSelections(ts, i)
      [] rule = "selection" -> ParseSelection(ts, i)
      [] rule = "definition" -> ParseDefinition(ts, i)
      [] rule = "definitions" -> ParseDefinitions(ts, i)

parse_query(s) ==
    IF ~Tokenizes(s) THEN Fail
    ELSE LET r == Parse("definitions", Tokens(s), 1, FALSE)
         IN  IF r.ok /\ r.v # <<>> THEN Parsed(Document(r.v), r.i) ELSE Fail

(***************************************************************************)
(* Inputs.                                                                 *)
(***************************************************************************)
\* a  1  space  ,  {  ...  "  \  ;  #  newline  .  """
SrcPieces == {<<97>>, <<49>>, <<32>>, <<44>>, <<123>>, <<46, 46, 46>>, <<34>>,
              <<92>>, <<59>>, <<35>>, <<10>>, <<46>>, <<34, 34, 34>>}

AnySources == {Concat(ps) : ps \in SeqsUpTo(SrcPieces, MaxPieces)}

\* the field  a
LeafField == Field(<<>>, <<97>>, <<>>, <<>>, <<>>)
\* the directive  @d
PlainDirective == Directive(<<100>>, <<>>)
\* the document  { a(b: v) }
ArgumentDocument(v) ==
    Document(<<Shorthand(<<Field(<<>>, <<97>>, <<<<<<98>>, v>>>>, <<>>, <<>>)>>)>>)

\* the characters of the string values: \n " \ n U+001F, and with them
\* every character U+0000 to U+001F, U+007F U+009F U+00E9 U+1F600
CoreChars == {10, 34, 92, 110, 31}
AllChars == CoreChars \cup (0..31) \cup {127, 159, 233, 128512}

Strings == SeqsUpTo(CoreChars, MaxStrLen) \cup {<<c>> : c \in AllChars}

\* { a(b: s) }  and  { a(b: [B s s]) }
StringDocuments ==
    {ArgumentDocument(StringV(s)) : s \in Strings}
    \cup {ArgumentDocument(ListV(<<EnumV(<<66>>), StringV(s), StringV(s)>>)) :
             s \in Strings}

\* $a  -12  0.5  "n\""  true  null  B
LeafValues == {Variable(<<97>>), IntV(-12), FloatV(FALSE, 5, 1),
               StringV(<<110, 34>>), BooleanV(TRUE), NullV, EnumV(<<66>>)}

FlatValues ==
    LeafValues
    \cup {ListV(<<>>), ObjectV(<<>>)}
    \cup {ListV(<<v, w>>) : v \in LeafValues, w \in LeafValues}
    \cup {ObjectV(<<<<<<107>>, v>>, <<<<108>>, w>>>>) : v \in LeafValues, w \in LeafValues}

RECURSIVE NestedValues(_)
NestedValues(d) ==
    IF d = 0 THEN FlatValues
    ELSE LET inner == NestedValues(d - 1)
         IN  FlatValues \cup {ListV(<<v>>) : v \in inner}
                        \cup {ObjectV(<<<<<<107>>, v>>>>) : v \in inner}

\* 0  7  10  -1  120  false  -0  1.25  1000  -30.5  0.05
NumberValues == {IntV(0), IntV(7), IntV(10), IntV(-1), IntV(120), BooleanV(FALSE),
                 FloatV(TRUE, 0, 0), FloatV(FALSE, 125, 2), FloatV(FALSE, 1000, 0),
                 FloatV(TRUE, 305, 1), FloatV(FALSE, 5, 2)}

ValueDocuments ==
    {ArgumentDocument(v) : v \in NestedValues(MaxDepth) \cup NumberValues}

RECURSIVE Types(_)
Types(d) ==
    IF d = 0 THEN {NamedType(<<84>>)}
    ELSE LET inner == Types(d - 1)
         IN  {NamedType(<<84>>)} \cup {ListType(t) : t \in inner}
                                 \cup {NonNullType(t) : t \in inner}

\* $a: t  with no default, with the default 1, with the default "n"
VariableDefinitions ==
    {VariableDefinition(<<97>>, t, d) :
        t \in Types(MaxDepth), d \in {<<>>, <<IntV(1)>>, <<StringV(<<110>>)>>}}

\* query Q(...) { a }
VariableDocuments ==
    {Document(<<Operation("Query", <<<<81>>>>, vds, <<>>, <<LeafField>>)>>) :
        vds \in SeqsUpTo(VariableDefinitions, 2)}

\* a   x:a(k:1)@d   ...F   ...F@d(k:1)   ...{}   ...on T@d{a}
BaseSelections ==
    {LeafField,
     Field(<<<<120>>>>, <<97>>, <<<<<<107>>, IntV(1)>>>>, <<PlainDirective>>, <<>>),
     FragmentSpread(<<70>>, <<>>),
     FragmentSpread(<<70>>, <<Directive(<<100>>, <<<<<<107>>, IntV(1)>>>>)>>),
     InlineFragment(<<>>, <<>>, <<>>),
     InlineFragment(<<On(<<84>>)>>, <<PlainDirective>>, <<LeafField>>)}

RECURSIVE NestedSelections(_)
NestedSelections(d) ==
    IF d = 0 THEN BaseSelections
    ELSE LET inner == NestedSelections(d - 1)
         IN  BaseSelections
             \cup {Field(<<>>, <<102>>, <<>>, <<>>, <<x>>) : x \in inner}
             \cup {Field(<<>>, <<102>>, <<>>, <<>>, <<x, LeafField>>) : x \in inner}
             \cup {InlineFragment(<<>>, <<>>, <<x>>) : x \in inner}

SelectionDocuments ==
    LET near == {LeafField, FragmentSpread(<<70>>, <<>>)}
        deep == NestedSelections(MaxDepth)
    IN  {Document(<<Shorthand(<<x>>)>>) : x \in deep}
        \cup {Document(<<Shorthand(<<x, y>>)>>) : x \in deep, y \in near}
        \cup {Document(<<Shorthand(<<y, x>>)>>) : x \in deep, y \in near}

\* {a}  {}  query{a}  query Q{a}  mutation{a}  mutation M@d{a}
\* subscription S($a:T){a}  fragment F on T{a}  fragment F on T@d{}
Definitions ==
    {Shorthand(<<LeafField>>),
     Shorthand(<<>>),
     Operation("Query", <<>>, <<>>, <<>>, <<LeafField>>),
     Operation("Query", <<<<81>>>>, <<>>, <<>>, <<LeafField>>),
     Operation("Mutation", <<>>, <<>>, <<>>, <<LeafField>>),
     Operation("Mutation", <<<<77>>>>, <<>>, <<PlainDirective>>, <<LeafField>>),
     Operation("Subscription", <<<<83>>>>,
               <<VariableDefinition(<<97>>, NamedType(<<84>>), <<>>)>>, <<>>,
               <<LeafField>>),
     FragmentDefinition(<<70>>, On(<<84>>), <<>>, <<LeafField>>),
     FragmentDefinition(<<70>>, On(<<84>>), <<PlainDirective>>, <<>>)}

DefinitionDocuments == {Document(defs) : defs \in SeqsUpTo(Definitions, MaxDefs)}

\* query Q($a:T=1)@d{x:f(k:1)@d{a}}  fragment F on T@d{a}
\* every part a typed operation, a fragment definition and a field can have
FullDocument ==
    Document(<<Operation("Query", <<<<81>>>>,
                         <<VariableDefinition(<<97>>, NamedType(<<84>>), <<IntV(1)>>)>>,
                         <<PlainDirective>>,
                         <<Field(<<<<120>>>>, <<102>>, <<<<<<107>>, IntV(1)>>>>,
                                 <<PlainDirective>>, <<LeafField>>)>>),
               FragmentDefinition(<<70>>, On(<<84>>), <<PlainDirective>>,
                                  <<LeafField>>)>>)

(***************************************************************************)
(* Source texts that parse, for the calls of the tests of lines 325-376:   *)
(* minify_document(&parse_query(source)) and minify_query(source).         *)
(***************************************************************************)
\* \n query SomeQuery($foo: String!, $bar: String) {\n someField(foo: $foo,
\*  bar: $bar) {\n a\n b {\n ... on B {\n c\n d\n }\n }\n }\n }\n
\* (lines 284-296 and 327-339, each line's indentation cut to one space)
SrcStripIgnored ==
    <<10, 32, 113, 117, 101, 114, 121, 32, 83, 111, 109, 101, 81, 117,
      101, 114, 121, 40, 36, 102, 111, 111, 58, 32, 83, 116, 114, 105,
      110, 103, 33, 44, 32, 36, 98, 97, 114, 58, 32, 83, 116, 114, 105,
      110, 103, 41, 32, 123, 10, 32, 115, 111, 109, 101, 70, 105, 101,
      108, 100, 40, 102, 111, 111, 58, 32, 36, 102, 111, 111, 44, 32, 98,
      97, 114, 58, 32, 36, 98, 97, 114, 41, 32, 123, 10, 32, 97, 10, 32,
      98, 32, 123, 10, 32, 46, 46, 46, 32, 111, 110, 32, 66, 32, 123, 10,
      32, 99, 10, 32, 100, 10, 32, 125, 10, 32, 125, 10, 32, 125, 10, 32,
      125, 10, 32>>

\* mutation M($i: U! = { a: 1, b: "foo" }) @opt(level: 1) { u }
SrcDefaultObject ==
    <<109, 117, 116, 97, 116, 105, 111, 110, 32, 77, 40, 36, 105, 58, 32,
      85, 33, 32, 61, 32, 123, 32, 97, 58, 32, 49, 44, 32, 98, 58, 32, 34,
      102, 111, 111, 34, 32, 125, 41, 32, 64, 111, 112, 116, 40, 108, 101,
      118, 101, 108, 58, 32, 49, 41, 32, 123, 32, 117, 32, 125>>

\* { u(id: "123", data: $i) { ...F } } fragment F on Item { owner { id } }
SrcFragment ==
    <<123, 32, 117, 40, 105, 100, 58, 32, 34, 49, 50, 51, 34, 44, 32, 100,
      97, 116, 97, 58, 32, 36, 105, 41, 32, 123, 32, 46, 46, 46, 70, 32,
      125, 32, 125, 32, 102, 114, 97, 103, 109, 101, 110, 116, 32, 70, 32,
      111, 110, 32, 73, 116, 101, 109, 32, 123, 32, 111, 119, 110, 101,
      114, 32, 123, 32, 105, 100, 32, 125, 32, 125>>

\* { a }
SrcMinimal ==
    <<123, 32, 97, 32, 125>>

\* mutation { notify }
SrcMinimalMutation ==
    <<109, 117, 116, 97, 116, 105, 111, 110, 32, 123, 32, 110, 111, 116,
      105, 102, 121, 32, 125>>

\* query { node }\n
SrcMinimalQuery ==
    <<113, 117, 101, 114, 121, 32, 123, 32, 110, 111, 100, 101, 32, 125,
      10>>

\* query Foo($site: Site = MOBILE) { field }
SrcVarDefaults ==
    <<113, 117, 101, 114, 121, 32, 70, 111, 111, 40, 36, 115, 105, 116,
      101, 58, 32, 83, 105, 116, 101, 32, 61, 32, 77, 79, 66, 73, 76, 69,
      41, 32, 123, 32, 102, 105, 101, 108, 100, 32, 125>>

\* query{node@dir(a:1 b:"2" c:true d:false e:null)}
\* (line 413)
SrcDirectiveArgs ==
    <<113, 117, 101, 114, 121, 123, 110, 111, 100, 101, 64, 100, 105, 114,
      40, 97, 58, 49, 32, 98, 58, 34, 50, 34, 32, 99, 58, 116, 114, 117,
      101, 32, 100, 58, 102, 97, 108, 115, 101, 32, 101, 58, 110, 117,
      108, 108, 41, 125>>

\* query{node{id...on User@defer{name}...something},x:y#c\n}
SrcSpreads ==
    <<113, 117, 101, 114, 121, 123, 110, 111, 100, 101, 123, 105, 100, 46,
      46, 46, 111, 110, 32, 85, 115, 101, 114, 64, 100, 101, 102, 101,
      114, 123, 110, 97, 109, 101, 125, 46, 46, 46, 115, 111, 109, 101,
      116, 104, 105, 110, 103, 125, 44, 120, 58, 121, 35, 99, 10, 125>>

\* subscription S($site:[Int!]=[123 456]){field(o:{j:$site,k:[]})}
SrcLists ==
    <<115, 117, 98, 115, 99, 114, 105, 112, 116, 105, 111, 110, 32, 83,
      40, 36, 115, 105, 116, 101, 58, 91, 73, 110, 116, 33, 93, 61, 91,
      49, 50, 51, 32, 52, 53, 54, 93, 41, 123, 102, 105, 101, 108, 100,
      40, 111, 58, 123, 106, 58, 36, 115, 105, 116, 101, 44, 107, 58, 91,
      93, 125, 41, 125>>

\* {a(b:"""x""")}
SrcBlockString ==
    <<123, 97, 40, 98, 58, 34, 34, 34, 120, 34, 34, 34, 41, 125>>

\* {a(b:"""\n\n  block string uses \"""\n\n""")}
\* (lines 463-467)
SrcBlockQuotes ==
    <<123, 97, 40, 98, 58, 34, 34, 34, 10, 10, 32, 32, 98, 108, 111, 99,
      107, 32, 115, 116, 114, 105, 110, 103, 32, 117, 115, 101, 115, 32,
      92, 34, 34, 34, 10, 10, 34, 34, 34, 41, 125>>

\* {a(b:"\u0041\n")}
SrcEscapedString ==
    <<123, 97, 40, 98, 58, 34, 92, 117, 48, 48, 52, 49, 92, 110, 34, 41,
      125>>

\* {a(b:1.0,c:0.5)}
SrcFloat ==
    <<123, 97, 40, 98, 58, 49, 46, 48, 44, 99, 58, 48, 46, 53, 41, 125>>

\* {a(b:1e3)}
SrcExponent ==
    <<123, 97, 40, 98, 58, 49, 101, 51, 41, 125>>

\* {a(b:-0)}
SrcNegativeZero ==
    <<123, 97, 40, 98, 58, 45, 48, 41, 125>>

TestSources ==
    {SrcStripIgnored,
     SrcDefaultObject,
     SrcFragment,
     SrcMinimal,
     SrcMinimalMutation,
     SrcMinimalQuery,
     SrcVarDefaults,
     SrcDirectiveArgs,
     SrcSpreads,
     SrcLists,
     SrcBlockString,
     SrcBlockQuotes,
     SrcEscapedString,
     SrcFloat,
     SrcExponent,
     SrcNegativeZero}

ValidSources == {s \in TestSources : parse_query(s).ok}

\* {...{}a}  query{}  fragment F on T{}
\* an inline fragment, an operation and a fragment definition that select
\* nothing, and a field
HollowDocument ==
    Document(<<Shorthand(<<InlineFragment(<<>>, <<>>, <<>>), LeafField>>),
               Operation("Query", <<>>, <<>>, <<>>, <<>>),
               FragmentDefinition(<<70>>, On(<<84>>), <<>>, <<>>)>>)

\* {a(b:[B "  " " "])}
\* string values of spaces, after a word and after each other
SpacesDocument ==
    ArgumentDocument(ListV(<<EnumV(<<66>>), StringV(<<32, 32>>), StringV(<<32>>)>>))

Documents ==
    StringDocuments \cup ValueDocuments \cup VariableDocuments
    \cup SelectionDocuments \cup DefinitionDocuments
    \cup {FullDocument, HollowDocument, SpacesDocument}

InitQuery(s) ==
    /\ source = s
    /\ off = TokenStream_new(s)
    /\ bits = <<>>
    /\ prev_was_punctuator = FALSE
    /\ qpc = "loop"
    /\ qres = <<>>
    /\ round = 1
    /\ first = <<>>

NoDocument ==
    /\ doc = EmptyDocument
    /\ stack = <<>>
    /\ buf = <<>>
    /\ last_was_non_punctuator = FALSE
    /\ dres = <<>>
    /\ emitted = <<>>

NoQuery ==
    /\ source = <<>>
    /\ off = 1
    /\ bits = <<>>
    /\ prev_was_punctuator = FALSE
    /\ qpc = "idle"
    /\ qres = <<>>
    /\ round = 1
    /\ first = <<>>

InitDocument(d) ==
    /\ doc = d
    /\ stack = <<Call("minify_document", d)>>
    /\ buf = <<>>
    /\ last_was_non_punctuator = FALSE
    /\ dres = <<>>
    /\ emitted = <<>>

\* the caller has called minify_query, or minify_document, or both on a
\* source text and its parse
Init ==
    \/ \E s \in AnySources : InitQuery(s) /\ NoDocument
    \/ \E d \in Documents : NoQuery /\ InitDocument(d)
    \/ \E s \in ValidSources : InitQuery(s) /\ InitDocument(parse_query(s).v)

NextQuery == QueryToken \/ QueryEnd \/ QueryError \/ Reminify

NextDocument ==
    \/ minify_document
    \/ minify_document_again
    \/ minify_document_return
    \/ write_non_punctuator
    \/ write_punctuator
    \/ write_document
    \/ write_definition
    \/ write_operation
    \/ write_fragment
    \/ write_selection_set
    \/ write_selection
    \/ write_type_condition
    \/ write_variable_definitions
    \/ write_type
    \/ write_directives
    \/ write_arguments
    \/ write_value
    \/ write_value_String

Next == NextQuery \/ NextDocument

Spec == Init /\ [][Next]_vars

\* minify_document alone, on the documents and on the parse of every source
\* that parses; a call in progress runs on
InitDocuments ==
    \E d \in Documents \cup {parse_query(s).v : s \in ValidSources} :
        NoQuery /\ InitDocument(d)

DocumentSpec ==
    InitDocuments /\ [][NextDocument]_vars /\ WF_vars(NextDocument)

(***************************************************************************)
(* Properties.                                                             *)
(***************************************************************************)
\* the text of fragments written one after the other with one space between
\* two word-like neighbours and nothing between any other two
RECURSIVE Glue(_)
Glue(fs) ==
    IF fs = <<>> THEN <<>>
    ELSE IF Len(fs) = 1 THEN fs[1].text
    ELSE LET h == Len(fs) \div 2
         IN  Glue(SubSeq(fs, 1, h))
             \o (IF fs[h].word /\ fs[h + 1].word THEN <<32>> ELSE <<>>)
             \o Glue(SubSeq(fs, h + 1, Len(fs)))

\* the tokens the stream has delivered before offset stop
RECURSIVE TokensBefore(_, _, _)
TokensBefore(s, i, stop) ==
    IF i >= stop THEN <<>>
    ELSE LET t == uncons(s, i)
         IN  IF t.tag # "Ok" THEN <<>>
             ELSE <<[kind |-> t.kind, value |-> t.value]>> \o TokensBefore(s, t.next, stop)

FragmentsOf(ts) ==
    [k \in 1..Len(ts) |-> Fragment(ts[k].kind # "Punctuator", ts[k].value)]

Delivered == TokensBefore(Input, TokenStream_new(Input), off)

\* what ends the stream of s: the first error, or the end of input
RECURSIVE FirstError(_, _)
FirstError(s, i) ==
    LET t == take_token(s, i)
    IN  IF t.tag = "Ok" THEN FirstError(s, skip_whitespace(s, t.next)) ELSE t

BothCalled ==
    /\ qpc = "done"
    /\ round = 1
    /\ dres # <<>>
    /\ parse_query(source).ok
    /\ doc = parse_query(source).v

\* C1: for every source text that parses, minify_query(source) is Ok of the
\* very string minify_document(parse(source)) returns.
QueryEqualsDocument == BothCalled => qres = <<Ok(dres[1])>>

\* C2: in minify_query and in minify_document alike, what is written is the
\* fragments emitted so far with exactly one space between two neighbours
\* that are both word-like and nothing between two neighbours of which one is
\* a punctuator.
AdjacencyRule ==
    /\ Concat(bits) = Glue(FragmentsOf(Delivered))
    /\ buf = Glue(emitted)

AdjacencyRuleWitness ==
    /\ qpc = "done"
    /\ dres # <<>>
    /\ \E k \in 1..(Len(emitted) - 1) : emitted[k].word /\ emitted[k + 1].word
    /\ \E k \in 1..(Len(emitted) - 1) : emitted[k].word /\ ~emitted[k + 1].word
    /\ \E k \in 1..(Len(emitted) - 1) : ~emitted[k].word /\ emitted[k + 1].word
    /\ \E k \in 1..Len(bits) : bits[k] = <<32>>
    /\ Len(bits) < 2 * Len(Delivered) - 1

\* C3: when the stream ends in a lexical error, minify_query returns the Err
\* whose message is the tokenizer's, displayed after "query minify error: ",
\* and nothing of the text built from the tokens before the error; when the
\* stream ends at the end of input it returns Ok of the whole text.
ErrorOrWholeText ==
    qpc = "done" =>
        LET e == FirstError(Input, TokenStream_new(Input))
        IN  IF e.tag = "Err"
            THEN /\ qres = <<[tag |-> "Err", error |-> <<"Unexpected ", e.what, e.text>>]>>
                 /\ Display(qres[1])
                      = <<"query minify error: ", <<"Unexpected ", e.what, e.text>>>>
            ELSE qres = <<[tag |-> "Ok", value |-> Glue(FragmentsOf(Tokens(Input)))]>>

ErrorOrWholeTextWitness ==
    /\ qpc = "done"
    /\ round = 1
    /\ qres[1].tag = "Err"
    /\ qres[1].error = <<"Unexpected ", "unexpected character", <<59>>>>
    /\ Len(bits) >= 2

\* a number token with the punctuator ... right after it
NumberBeforeSpread(ts) ==
    \E k \in 1..(Len(ts) - 1) :
        /\ ts[k].kind \in {"IntValue", "FloatValue"}
        /\ ts[k + 1].value = <<46, 46, 46>>

\* C4 as stated: for any source with minify_query(source) = Ok(m),
\* minify_query(m) = Ok(m).
Idempotent == (round = 2 /\ qpc = "done") => qres = first

\* C4: for any source with minify_query(source) = Ok(m) in which no IntValue
\* or FloatValue token is directly followed by the punctuator "...",
\* minify_query(m) = Ok(m).
IdempotentWithoutNumberSpread ==
    (round = 2 /\ qpc = "done" /\ ~NumberBeforeSpread(Tokens(source))) => qres = first

IdempotentWitness ==
    /\ round = 2
    /\ qpc = "done"
    /\ qres = first
    /\ first[1].value # source
    /\ \E k \in 1..Len(bits) : bits[k] = <<32>>
    /\ \E k \in 1..(Len(bits) - 1) : bits[k] # <<32>> /\ bits[k + 1] # <<32>>

\* the fragment the step has written
Written == emitted'[Len(emitted')].text

\* C5: the literal write_value writes for Value::String(s) decodes, under
\* the escapes of the language, to s itself.
StringRoundTrip ==
    [][write_value_String =>
          unquote_string(Written) = [ok |-> TRUE, v |-> Head(stack).arg.s]]_vars

\* "\u001f\"\\" has been written for the value U+001F " \
StringRoundTripWitness ==
    \E k \in 1..Len(emitted) :
        /\ emitted[k].text = <<34, 92, 117, 48, 48, 49, 102, 92, 34, 92, 92, 34>>
        /\ unquote_string(emitted[k].text).v = <<31, 34, 92>>

\* the digits of "{:x}"
HexChars == <<48, 49, 50, 51, 52, 53, 54, 55, 56, 57, 97, 98, 99, 100, 101, 102>>

\* the table of escapes: \b \f \r \n \t \" \\, \u and four lowercase hex
\* digits for any other control character, the character itself otherwise
Escaped(c) ==
    IF c = 8 THEN <<92, 98>>
    ELSE IF c = 12 THEN <<92, 102>>
    ELSE IF c = 13 THEN <<92, 114>>
    ELSE IF c = 10 THEN <<92, 110>>
    ELSE IF c = 9 THEN <<92, 116>>
    ELSE IF c = 34 THEN <<92, 34>>
    ELSE IF c = 92 THEN <<92, 92>>
    ELSE IF c \in (0..31) \cup (127..159)
    THEN <<92, 117, HexChars[((c \div 4096) % 16) + 1], HexChars[((c \div 256) % 16) + 1],
           HexChars[((c \div 16) % 16) + 1], HexChars[(c % 16) + 1]>>
    ELSE <<c>>

\* C6: write_value writes Value::String(s) as one double-quoted literal,
\* never a block string, each character of s by the table of escapes; so
\* three double quotes in a row are written \"\"\".
StringEscapes ==
    [][write_value_String =>
          LET s == Head(stack).arg.s
              body == SubSeq(Written, 2, Len(Written) - 1)
          IN  /\ Len(Written) >= 2
              /\ Written[1] = 34
              /\ Written[Len(Written)] = 34
              /\ ~StartsWithAt(Written, 1, <<34, 34, 34>>)
              /\ body = Concat([k \in 1..Len(s) |-> Escaped(s[k])])
              /\ SubSeq(buf', Len(buf') - Len(Written) + 1, Len(buf')) = Written]_vars

\* {a(b:"block string uses \"\"\"")} is returned for the source whose block
\* string holds three double quotes in a row
StringEscapesWitness ==
    /\ source = SrcBlockQuotes
    /\ dres = <<<<123, 97, 40, 98, 58, 34, 98, 108, 111, 99, 107, 32, 115, 116,
                  114, 105, 110, 103, 32, 117, 115, 101, 115, 32, 92, 34, 92, 34,
                  92, 34, 34, 41, 125>>>>

IsTokenText(b) == b # <<32>>

\* C7: when minify_query returns Ok, the text is the texts of the tokens
\* the tokenizer delivers, each as it stands and in that order, with nothing
\* else but single spaces between two of them.
VerbatimTokens ==
    (qpc = "done" /\ qres[1].tag = "Ok") =>
        LET ts == Tokens(Input)
        IN  /\ SelectSeq(bits, IsTokenText) = [k \in 1..Len(ts) |-> ts[k].value]
            /\ \A k \in 1..Len(bits) :
                 bits[k] = <<32>> =>
                    /\ 1 < k
                    /\ k < Len(bits)
                    /\ bits[k - 1] # <<32>>
                    /\ bits[k + 1] # <<32>>
            /\ qres[1].value = Concat(bits)

\* a source with a comma and a comment between its tokens has been minified
VerbatimTokensWitness ==
    /\ qpc = "done"
    /\ round = 1
    /\ qres[1].tag = "Ok"
    /\ \E k \in 1..Len(source) : source[k] = 44
    /\ \E k \in 1..Len(source) : source[k] = 35
    /\ \E k \in 1..Len(bits) : bits[k] = <<32>>
    /\ \A k \in 1..Len(qres[1].value) : qres[1].value[k] \notin {44, 35, 10}

RECURSIVE Sum(_)
Sum(ns) == IF Len(ns) = 0 THEN 0 ELSE ns[1] + Sum(Tail(ns))

\* 1 for the braces around xs; with empty, only for braces around nothing
Braces(xs, empty) == IF empty /\ xs # <<>> THEN 0 ELSE 1

\* the pairs of braces of an object value
RECURSIVE ValueBraces(_, _)
ValueBraces(v, empty) ==
    CASE v.val = "Object" ->
           Braces(v.fields, empty)
           + Sum([k \in 1..Len(v.fields) |-> ValueBraces(v.fields[k][2], empty)])
      [] v.val = "List" ->
           Sum([k \in 1..Len(v.items) |-> ValueBraces(v.items[k], empty)])
      [] OTHER -> 0

ArgumentBraces(args, empty) ==
    Sum([k \in 1..Len(args) |-> ValueBraces(args[k][2], empty)])

DirectiveBraces(dirs, empty) ==
    Sum([k \in 1..Len(dirs) |-> ArgumentBraces(dirs[k].arguments, empty)])

\* the pairs of braces a document is to be written with: one for every
\* object value and every selection set, none for the selection set of a
\* field without items
RECURSIVE SelectionBraces(_, _)
SelectionBraces(x, empty) ==
    LET items == IF x.sel = "FragmentSpread" THEN <<>> ELSE x.selection_set.items
        inner == Sum([k \in 1..Len(items) |-> SelectionBraces(items[k], empty)])
    IN  CASE x.sel = "Field" ->
               ArgumentBraces(x.arguments, empty) + DirectiveBraces(x.directives, empty)
               + (IF items = <<>> THEN 0 ELSE Braces(items, empty) + inner)
          [] x.sel = "FragmentSpread" -> DirectiveBraces(x.directives, empty)
          [] x.sel = "InlineFragment" ->
               DirectiveBraces(x.directives, empty) + Braces(items, empty) + inner

SelectionSetBraces(items, empty) ==
    Braces(items, empty)
    + Sum([k \in 1..Len(items) |-> SelectionBraces(items[k], empty)])

DefinitionBraces(d, empty) ==
    IF d.def = "Fragment"
    THEN DirectiveBraces(d.directives, empty)
         + SelectionSetBraces(d.selection_set.items, empty)
    ELSE IF d.op.variant = "SelectionSet"
    THEN SelectionSetBraces(d.op.selection_set.items, empty)
    ELSE Sum([k \in 1..Len(d.op.variable_definitions) |->
                 LET dv == d.op.variable_definitions[k].default_value
                 IN  IF dv = <<>> THEN 0 ELSE ValueBraces(dv[1], empty)])
         + DirectiveBraces(d.op.directives, empty)
         + SelectionSetBraces(d.op.selection_set.items, empty)

DocumentBraces(d, empty) ==
    Sum([k \in 1..Len(d.definitions) |-> DefinitionBraces(d.definitions[k], empty)])

Opens(k) == emitted[k] = Fragment(FALSE, <<123>>)
Closes(k) == emitted[k] = Fragment(FALSE, <<125>>)

\* C8: minify_document writes the selection set of a field exactly when it
\* has an item, so "{" is written once for every object value and every
\* selection set but those of fields without items, and "{}" only for an
\* object value or a selection set that is not a field's.
LeafFieldElision ==
    dres # <<>> =>
        /\ Cardinality({k \in 1..Len(emitted) : Opens(k)}) = DocumentBraces(doc, FALSE)
        /\ Cardinality({k \in 1..(Len(emitted) - 1) : Opens(k) /\ Closes(k + 1)})
             = DocumentBraces(doc, TRUE)

\* {f{x:a(k:1)@d}} has been returned: a field with items around a field
\* with an alias, an argument and a directive and no items
LeafFieldElisionWitness ==
    /\ doc = Document(<<Shorthand(<<Field(<<>>, <<102>>, <<>>, <<>>,
                 <<Field(<<<<120>>>>, <<97>>, <<<<<<107>>, IntV(1)>>>>,
                         <<PlainDirective>>, <<>>)>>)>>)>>)
    /\ dres = <<<<123, 102, 123, 120, 58, 97, 40, 107, 58, 49, 41, 64, 100, 125, 125>>>>

\* ( [ { open, ) ] } close
Nesting(k) ==
    Cardinality({j \in 1..k : ~emitted[j].word /\ emitted[j].text \in {<<40>>, <<91>>, <<123>>}})
    - Cardinality({j \in 1..k : ~emitted[j].word /\ emitted[j].text \in {<<41>>, <<93>>, <<125>>}})

\* where the text of a definition starts: at the first fragment and after
\* every "}" that closes all that is open
DefinitionStarts ==
    {k \in 1..Len(emitted) : k = 1 \/ (Closes(k - 1) /\ Nesting(k - 1) = 0)}

DefinitionStart(j) ==
    CHOOSE k \in DefinitionStarts : Cardinality({i \in DefinitionStarts : i < k}) = j - 1

\* C10: minify_document writes a shorthand operation as its selection set
\* alone, and a Query, Mutation or Subscription with the keyword query,
\* mutation or subscription first, whatever else it has.
OperationForm ==
    dres # <<>> =>
        /\ Cardinality(DefinitionStarts) = Len(doc.definitions)
        /\ \A j \in 1..Len(doc.definitions) :
             LET d == doc.definitions[j]
                 f == emitted[DefinitionStart(j)]
             IN  d.def = "Operation" =>
                    CASE d.op.variant = "SelectionSet" -> f = Fragment(FALSE, <<123>>)
                      [] d.op.variant = "Query" ->
                           f = Fragment(TRUE, <<113, 117, 101, 114, 121>>)
                      [] d.op.variant = "Mutation" ->
                           f = Fragment(TRUE, <<109, 117, 116, 97, 116, 105, 111, 110>>)
                      [] d.op.variant = "Subscription" ->
                           f = Fragment(TRUE, <<115, 117, 98, 115, 99, 114, 105, 112,
                                                116, 105, 111, 110>>)

\* {a}mutation{a} has been returned for a shorthand and a mutation that has
\* no name, no variables and no directives
OperationFormWitness ==
    /\ doc = Document(<<Shorthand(<<LeafField>>),
                        Operation("Mutation", <<>>, <<>>, <<>>, <<LeafField>>)>>)
    /\ dres = <<<<123, 97, 125, 109, 117, 116, 97, 116, 105, 111, 110, 123, 97, 125>>>>

\* C9: on every document minify_document comes to its end and returns a
\* string, never an error, and the document is at no step changed.
Total ==
    /\ [][doc' = doc]_vars
    /\ [](dres # <<>> => dres[1] \in Seq(Nat))
    /\ <>(stack = <<>> /\ dres # <<>>)

\* a document nested as deep as the bounds allow has been written
TotalWitness ==
    /\ stack = <<>>
    /\ dres # <<>>
    /\ \E v \in NestedValues(MaxDepth) \ NestedValues(MaxDepth - 1) :
          doc = ArgumentDocument(v)

(***************************************************************************)
(* The fragments of a document, in the order of the query language: what   *)
(* a traversal of the document is to write, told without the call stack.   *)
(***************************************************************************)
Word(s) == <<Fragment(TRUE, s)>>
Punct(s) == <<Fragment(FALSE, s)>>

RECURSIVE ValueFragments(_)
PairFragments(pairs) ==
    Concat([k \in 1..Len(pairs) |->
               Word(pairs[k][1]) \o Punct(<<58>>) \o ValueFragments(pairs[k][2])])

ValueFragments(v) ==
    CASE v.val = "Variable" -> Punct(<<36>>) \o Word(v.name)
      [] v.val = "Int" -> Word(IntToText(v.n))
      [] v.val = "Float" -> Word(FloatToText(v.f))
      [] v.val = "String" -> Word(StringLiteral(v.s))
      [] v.val = "Boolean" ->
            Word(IF v.b THEN <<116, 114, 117, 101>> ELSE <<102, 97, 108, 115, 101>>)
      [] v.val = "Null" -> Word(<<110, 117, 108, 108>>)
      [] v.val = "Enum" -> Word(v.name)
      [] v.val = "List" ->
            Punct(<<91>>)
            \o Concat([k \in 1..Len(v.items) |-> ValueFragments(v.items[k])])
            \o Punct(<<93>>)
      [] v.val = "Object" -> Punct(<<123>>) \o PairFragments(v.fields) \o Punct(<<125>>)

RECURSIVE TypeFragments(_)
TypeFragments(t) ==
    CASE t.ty = "NamedType" -> Word(t.name)
      [] t.ty = "ListType" -> Punct(<<91>>) \o TypeFragments(t.inner) \o Punct(<<93>>)
      [] t.ty = "NonNullType" -> TypeFragments(t.inner) \o Punct(<<33>>)

\* ( name : value ... ), and nothing for no argument
ArgumentFragments(args) ==
    IF args = <<>> THEN <<>>
    ELSE Punct(<<40>>) \o PairFragments(args) \o Punct(<<41>>)

DirectiveFragments(dirs) ==
    Concat([k \in 1..Len(dirs) |->
               Punct(<<64>>) \o Word(dirs[k].name)
               \o ArgumentFragments(dirs[k].arguments)])

\* $ name : type, and = value when there is a default
VariableFragments(var) ==
    Punct(<<36>>) \o Word(var.name) \o Punct(<<58>>) \o TypeFragments(var.var_type)
    \o (IF var.default_value = <<>> THEN <<>>
        ELSE Punct(<<61>>) \o ValueFragments(var.default_value[1]))

VariableDefinitionFragments(vs) ==
    IF vs = <<>> THEN <<>>
    ELSE Punct(<<40>>)
         \o Concat([k \in 1..Len(vs) |-> VariableFragments(vs[k])])
         \o Punct(<<41>>)

RECURSIVE SelectionFragments(_)
SelectionSetFragments(items) ==
    Punct(<<123>>)
    \o Concat([k \in 1..Len(items) |-> SelectionFragments(items[k])])
    \o Punct(<<125>>)

SelectionFragments(x) ==
    CASE x.sel = "Field" ->
           (IF x.alias = <<>> THEN <<>> ELSE Word(x.alias[1]) \o Punct(<<58>>))
           \o Word(x.name)
           \o ArgumentFragments(x.arguments)
           \o DirectiveFragments(x.directives)
           \o (IF x.selection_set.items = <<>> THEN <<>>
               ELSE SelectionSetFragments(x.selection_set.items))
      [] x.sel = "FragmentSpread" ->
           Punct(<<46, 46, 46>>) \o Word(x.fragment_name)
           \o DirectiveFragments(x.directives)
      [] x.sel = "InlineFragment" ->
           Punct(<<46, 46, 46>>)
           \o (IF x.type_condition = <<>> THEN <<>>
               ELSE Word(<<111, 110>>) \o Word(x.type_condition[1].on))
           \o DirectiveFragments(x.directives)
           \o SelectionSetFragments(x.selection_set.items)

DefinitionFragments(d) ==
    IF d.def = "Fragment"
    THEN Word(<<102, 114, 97, 103, 109, 101, 110, 116>>) \o Word(d.name)
         \o Word(<<111, 110>>) \o Word(d.type_condition.on)
         \o DirectiveFragments(d.directives)
         \o SelectionSetFragments(d.selection_set.items)
    ELSE IF d.op.variant = "SelectionSet"
    THEN SelectionSetFragments(d.op.selection_set.items)
    ELSE Word(CASE d.op.variant = "Query" -> <<113, 117, 101, 114, 121>>
                [] d.op.variant = "Mutation" ->
                      <<109, 117, 116, 97, 116, 105, 111, 110>>
                [] d.op.variant = "Subscription" ->
                      <<115, 117, 98, 115, 99, 114, 105, 112, 116, 105, 111, 110>>)
         \o (IF d.op.name = <<>> THEN <<>> ELSE Word(d.op.name[1]))
         \o VariableDefinitionFragments(d.op.variable_definitions)
         \o DirectiveFragments(d.op.directives)
         \o SelectionSetFragments(d.op.selection_set.items)

DocumentFragments(d) ==
    Concat([k \in 1..Len(d.definitions) |-> DefinitionFragments(d.definitions[k])])

\* what minify_query returns for the text s when no other call runs
QueryAlone(s) ==
    LET e == FirstError(s, TokenStream_new(s))
    IN  IF e.tag = "Err" THEN MinifyError(to_string(e))
        ELSE Ok(Glue(FragmentsOf(Tokens(s))))

\* what minify_document returns for the document d when no other call runs
DocumentAlone(d) == Glue(DocumentFragments(d))

\* C11: calls of minify_query and of minify_document that run interleaved
\* in any order, and calls that follow other calls, each return what the
\* call returns when it runs alone: every call has a buffer and a flag of
\* its own, new at its start.
Independent ==
    /\ qpc = "done" => qres = <<QueryAlone(Input)>>
    /\ dres # <<>> => dres = <<DocumentAlone(doc)>>

\* a second call of minify_document is at its start, with the text of the
\* first call still where the first call left it, while the second call of
\* minify_query is half way through its tokens
IndependentWitness ==
    /\ Top("minify_document")
    /\ buf # <<>>
    /\ emitted # <<>>
    /\ round = 2
    /\ qpc = "loop"
    /\ bits # <<>>
    /\ first # <<>>

\* C12: minify_document writes the definitions in the order of the document;
\* of a typed operation the keyword, the name if any, the variable
\* definitions, the directives, the selection set; of a fragment definition
\* fragment, the name, on, the type condition, the directives, the selection
\* set; of a field the alias and ":" if any, the name, the arguments, the
\* directives, the selection set.  At every step what has been written is
\* the start of DocumentFragments(doc), and at the end all of it.
WrittenInOrder ==
    LET all == DocumentFragments(doc)
    IN  /\ Len(emitted) <= Len(all)
        /\ emitted = SubSeq(all, 1, Len(emitted))
        /\ dres # <<>> => emitted = all

\* query Q($a:T=1)@d{x:f(k:1)@d{a}}fragment F on T@d{a} has been returned
WrittenInOrderWitness ==
    /\ doc = FullDocument
    /\ dres = <<<<113, 117, 101, 114, 121, 32, 81, 40, 36, 97, 58, 84, 61, 49, 41,
                 64, 100, 123, 120, 58, 102, 40, 107, 58, 49, 41, 64, 100, 123, 97,
                 125, 125, 102, 114, 97, 103, 109, 101, 110, 116, 32, 70, 32, 111,
                 110, 32, 84, 64, 100, 123, 97, 125>>>>

\* the lists a document has, in the order of the document, each list as the
\* fragments of its entries: the variable definitions of an operation and
\* the arguments of every field and every directive
DirectiveLists(dirs) == [k \in 1..Len(dirs) |-> PairFragments(dirs[k].arguments)]

RECURSIVE SelectionLists(_)
SelectionLists(x) ==
    LET items == IF x.sel = "FragmentSpread" THEN <<>> ELSE x.selection_set.items
    IN  (IF x.sel = "Field" THEN <<PairFragments(x.arguments)>> ELSE <<>>)
        \o DirectiveLists(x.directives)
        \o Concat([k \in 1..Len(items) |-> SelectionLists(items[k])])

DefinitionLists(d) ==
    LET typed == d.def = "Operation" /\ d.op.variant # "SelectionSet"
        part == IF d.def = "Fragment" THEN d ELSE d.op
    IN  (IF typed
         THEN <<Concat([k \in 1..Len(d.op.variable_definitions) |->
                           VariableFragments(d.op.variable_definitions[k])])>>
              \o DirectiveLists(d.op.directives)
         ELSE IF d.def = "Fragment" THEN DirectiveLists(d.directives)
         ELSE <<>>)
        \o Concat([k \in 1..Len(part.selection_set.items) |->
                      SelectionLists(part.selection_set.items[k])])

HasEntry(list) == list # <<>>

\* the lists of the document that have an entry
DocumentLists(d) ==
    SelectSeq(Concat([k \in 1..Len(d.definitions) |-> DefinitionLists(d.definitions[k])]),
              HasEntry)

OpenParen(k) == emitted[k] = Fragment(FALSE, <<40>>)
CloseParen(k) == emitted[k] = Fragment(FALSE, <<41>>)
OpenParens == {k \in 1..Len(emitted) : OpenParen(k)}

\* the j-th "(" written, the ")" next after position k, and what has been
\* written between the j-th "(" and the ")" next after it
ParenAt(j) ==
    CHOOSE k \in OpenParens : Cardinality({i \in OpenParens : i < k}) = j - 1

NextClose(k) ==
    LET closes == {j \in (k + 1)..Len(emitted) : CloseParen(j)}
    IN  IF closes = {} THEN Len(emitted) + 1
        ELSE CHOOSE j \in closes : \A i \in closes : j <= i

WrittenLists ==
    [j \in 1..Cardinality(OpenParens) |->
        SubSeq(emitted, ParenAt(j) + 1, NextClose(ParenAt(j)) - 1)]

\* C13: minify_document writes "(" and ")" once for every list of variable
\* definitions and every list of arguments, of a field or of a directive,
\* that has an entry, and for no other list; between them is, entry after
\* entry with nothing else, "$" name ":" type and "=" value when there is a
\* default for a variable definition and name ":" value for an argument; no
\* comma is written.
ParenthesesAroundEntries ==
    dres # <<>> =>
        /\ WrittenLists = DocumentLists(doc)
        /\ Cardinality({k \in 1..Len(emitted) : CloseParen(k)}) = Cardinality(OpenParens)
        /\ \A k \in 1..Len(emitted) : emitted[k].text # <<44>>
        /\ \A i \in 1..Len(dres[1]) : dres[1][i] # 44

\* mutation M($i:U!={a:1 b:"foo"})@opt(level:1){u} has been returned: a
\* variable definition with a default, a directive with an argument, and a
\* field without arguments
ParenthesesAroundEntriesWitness ==
    /\ dres = <<<<109, 117, 116, 97, 116, 105, 111, 110, 32, 77,
                 40, 36, 105, 58, 85, 33, 61, 123, 97, 58, 49,
                 32, 98, 58, 34, 102, 111, 111, 34, 125, 41, 64,
                 111, 112, 116, 40, 108, 101, 118, 101, 108, 58,
                 49, 41, 123, 117, 125>>>>
    /\ Len(DocumentLists(doc)) = 2
    /\ doc.definitions[1].op.selection_set.items[1].arguments = <<>>

\* the selection sets in and under a selection: all of them, or those
\* without items ("empty"), or those without items that are a field's
\* ("leaf")
RECURSIVE SelectionSets(_, _)
SelectionSets(x, which) ==
    IF x.sel = "FragmentSpread" THEN 0
    ELSE LET items == x.selection_set.items
         IN  (CASE which = "all" -> 1
                [] which = "empty" -> IF items = <<>> THEN 1 ELSE 0
                [] which = "leaf" -> IF items = <<>> /\ x.sel = "Field" THEN 1 ELSE 0)
             + Sum([k \in 1..Len(items) |-> SelectionSets(items[k], which)])

DocumentSets(d, which) ==
    Sum([j \in 1..Len(d.definitions) |->
            LET def == d.definitions[j]
                items == IF def.def = "Fragment" THEN def.selection_set.items
                         ELSE def.op.selection_set.items
            IN  (IF which = "all" \/ (which = "empty" /\ items = <<>>) THEN 1 ELSE 0)
                + Sum([k \in 1..Len(items) |-> SelectionSets(items[k], which)])])

\* a "{" that is not between "(" and ")" opens a selection set: an object
\* value is in an argument or in the default of a variable definition
SetOpens ==
    {k \in 1..Len(emitted) :
        /\ Opens(k)
        /\ Cardinality({j \in 1..k : OpenParen(j)})
             = Cardinality({j \in 1..k : CloseParen(j)})}

\* C14: minify_document writes the braces of every selection set of an
\* operation, a fragment definition and an inline fragment, "{}" when it has
\* no items; the selection sets not written are the selection sets without
\* items of the fields, and no others.
BracesOfSelectionSets ==
    dres # <<>> =>
        /\ Cardinality(SetOpens) = DocumentSets(doc, "all") - DocumentSets(doc, "leaf")
        /\ Cardinality({k \in SetOpens : k < Len(emitted) /\ Closes(k + 1)})
             = DocumentSets(doc, "empty") - DocumentSets(doc, "leaf")
        /\ Cardinality(DefinitionStarts) = Len(doc.definitions)
        /\ doc.definitions # <<>> => Closes(Len(emitted))

\* {...{}a}query{}fragment F on T{} has been returned
BracesOfSelectionSetsWitness ==
    /\ doc = HollowDocument
    /\ dres = <<<<123, 46, 46, 46, 123, 125, 97, 125, 113, 117,
                 101, 114, 121, 123, 125, 102, 114, 97, 103,
                 109, 101, 110, 116, 32, 70, 32, 111, 110, 32,
                 84, 123, 125>>>>

\* the characters the punctuators end with:  ! $ ( ) . : = @ [ ] { }
PunctuatorEnds == {33, 36, 40, 41, 46, 58, 61, 64, 91, 93, 123, 125}

IsLiteral(f) == f.word /\ f.text # <<>> /\ f.text[1] = 34

\* for every character of Glue(fs), whether it is in the body of a string
\* literal: between the quotes of a fragment that is one
RECURSIVE InBody(_)
InBody(fs) ==
    IF fs = <<>> THEN <<>>
    ELSE IF Len(fs) = 1
    THEN [i \in 1..Len(fs[1].text) |->
             IsLiteral(fs[1]) /\ 1 < i /\ i < Len(fs[1].text)]
    ELSE LET h == Len(fs) \div 2
         IN  InBody(SubSeq(fs, 1, h))
             \o (IF fs[h].word /\ fs[h + 1].word THEN <<FALSE>> ELSE <<>>)
             \o InBody(SubSeq(fs, h + 1, Len(fs)))

\* C15: at every step of minify_document, last_was_non_punctuator is true
\* exactly when something has been written and the fragment written last is
\* word-like, a string literal included; the text never starts with a space,
\* never ends with a space, and has two spaces in a row only in the body of
\* a string literal.
FlagFollowsLastFragment ==
    /\ last_was_non_punctuator
         <=> (buf # <<>> /\ emitted # <<>> /\ emitted[Len(emitted)].word)
    /\ last_was_non_punctuator
         <=> (buf # <<>> /\ buf[Len(buf)] \notin PunctuatorEnds)
    /\ buf # <<>> => (buf[1] # 32 /\ buf[Len(buf)] # 32)
    /\ LET body == InBody(emitted)
       IN  /\ Len(body) = Len(buf)
           /\ \A i \in 1..(Len(buf) - 1) :
                 (buf[i] = 32 /\ buf[i + 1] = 32) => (body[i] /\ body[i + 1])

\* {a(b:[B "  " has been written: the string of two spaces, by the path of
\* lines 233-256, after a word, and the flag is set
FlagFollowsLastFragmentWitness ==
    /\ doc = SpacesDocument
    /\ stack # <<>>
    /\ last_was_non_punctuator
    /\ buf = <<123, 97, 40, 98, 58, 91, 66, 32, 34, 32, 32, 34>>
====
